---------------------------- MODULE Spec2Model ----------------------------
(***************************************************************************)
(* Model of the block-windowing engine of fast-draft-js:                   *)
(*   - getLazyLoadedBlockIndexes (section filter + window selector),       *)
(*   - the DraftEditorContents component's window state (mount, update,    *)
(*     intersection reports, scroll-to-block requests).                    *)
(* Arrays are JavaScript arrays: indices are 0-based, At(s, i) reads s[i]. *)
(* Block keys are positive integers; NoKey stands for a key that belongs   *)
(* to no block ('' / null / the key of a deleted block).                   *)
(***************************************************************************)
EXTENDS Integers, Sequences, FiniteSets, TLC

VARIABLES
  constants,        \* the values exported by LazyLoadingConstants
  editorState,      \* [blocks, selection, blockKeyToScrollTo]: the host's EditorState
  initialBlockKey,  \* the focus key handed to getLazyLoadedBlockIndexes
  pc,               \* position of the caller of getLazyLoadedBlockIndexes
  ret,              \* what the last call of getLazyLoadedBlockIndexes computed
  retBefore,        \* what the call before the last one computed
  phase,            \* DraftEditorContents: "unused", "constructed" or "mounted"
  state,            \* this.state of the component, as last committed
  pending,          \* the state update queued by setState and not yet processed
  dom,              \* the children of the contents container, as last rendered
  refs,             \* the component's ref cells (observers, observed elements, flags)
  scroll,           \* the scroll container's offset, the clamp threshold, a set timer
  helper            \* the arguments of a helper called on its own, and what it reads

selectVars == <<initialBlockKey, pc, ret, retBefore>>

componentVars == <<phase, state, pending, dom, refs>>

helperVars == <<scroll, helper>>

vars == <<constants, editorState, initialBlockKey, pc, ret, retBefore, phase, state, pending, dom, refs,
          scroll, helper>>

-----------------------------------------------------------------------------
(* Bounds of the model *)

MaxLen == 6

\* At most one section header per three blocks of a document.
MaxHeaders == MaxLen \div 3

\* Longest document drawn over every kind of block.
MaxKindsLen == 4

NoKey == 0

-----------------------------------------------------------------------------
(* JavaScript helpers *)

At(s, i) == s[i + 1]

Abs(x) == IF x < 0 THEN -x ELSE x

Floor2(x) == x \div 2

\* arr.findIndex(block => block.key === key): the first position whose block has
\* the key, -1 when there is none.
findIndex(arr, key) ==
  LET hits == {i \in 0..(Len(arr) - 1) : At(arr, i).key = key}
  IN  IF hits = {} THEN -1
      ELSE CHOOSE i \in hits : \A j \in hits : i <= j

\* Array.from({length: n}, (v, k) => k)
ArrayFromLength(n) == [k \in 1..n |-> k - 1]

\* arr.slice(0, n)
SliceFromZero(arr, n) == SubSeq(arr, 1, IF n < Len(arr) THEN n ELSE Len(arr))

-----------------------------------------------------------------------------
(* LazyLoadingConstants *)

MAX_LAZY_LOAD_BLOCKS == constants.MAX_LAZY_LOAD_BLOCKS

LAZY_LOAD_BLOCK_OFFSET == constants.LAZY_LOAD_BLOCK_OFFSET

MAX_BLOCKS_TO_DISPLAY == constants.MAX_BLOCKS_TO_DISPLAY

-----------------------------------------------------------------------------
(* Blocks.  A ContentBlock has key, type, depth and data.isOpen; the        *)
(* windowing code writes originalIndex, isSection and hidden on it.         *)
(* isOpen and hidden are "true", "false" or "undefined".                    *)

Block(key, type, depth, isOpen) ==
  [key |-> key, type |-> type, depth |-> depth, isOpen |-> isOpen,
   originalIndex |-> -1, isSection |-> "undefined", hidden |-> "undefined"]

BoolStr(b) == IF b THEN "true" ELSE "false"

\* mapFilteredBlock without the default of line 10: when no boolean is passed, hidden
\* stays what the block object carried.
mapFilteredBlockKeepsHidden(block, index, isSection, hidden) ==
  [block EXCEPT !.originalIndex = index,
                !.isSection = BoolStr(isSection),
                !.hidden = IF hidden \in {"true", "false"} THEN hidden ELSE block.hidden]

mapFilteredBlock(block, index, isSection, hidden) ==
  [block EXCEPT !.originalIndex = index,
                !.isSection = BoolStr(isSection),
                !.hidden = IF hidden \in {"true", "false"} THEN hidden ELSE "false"]


-----------------------------------------------------------------------------
(* getLazyLoadedBlockIndexes, part 1: the section filter                    *)

IsHeader(block) == block.type = "ordered-list-item" /\ block.depth = 0

\* isSectionOpen without the default of line 35: a header without a boolean isOpen
\* counts as collapsed.
isSectionOpenStrict(block) == block.isOpen = "true"

\* const isSectionOpen = typeof isOpen === 'boolean' ? isOpen : true
isSectionOpen(block) == IF block.isOpen \in {"true", "false"} THEN block.isOpen = "true" ELSE TRUE

\* The positions of the blocks that pass the test of line 33.
HeaderPositions(_blocks) == {h \in 0..(Len(_blocks) - 1) : IsHeader(At(_blocks, h))}

\* The value of shouldSkipBlocks when iteration i of the loop reaches line 41: the
\* loop sets it at every header (line 36) and nowhere else, so it is false before the
\* first header and !isSectionOpen of the nearest header before i after it.
shouldSkipBlocksAt(_blocks, headers, i) ==
  LET before == {h \in headers : h < i}
  IN  IF before = {} THEN FALSE
      ELSE LET h == CHOOSE x \in before : \A y \in before : y <= x
           IN  ~isSectionOpen(At(_blocks, h))

\* Line 31: every block of _blocks is annotated by the loop, kept or not
\* (mapFilteredBlock writes on the block itself).
AnnotateAll(_blocks) ==
  [k \in 1..Len(_blocks) |->
     mapFilteredBlock(_blocks[k], k - 1, _blocks[k].type = "ordered-list-item", "undefined")]

\* KeptByLoop without the header branch of lines 33-39: a header inside a collapsed
\* section is skipped like any other block.
KeptByLoopSkipsHeaders(_blocks, headers, block) ==
  ~shouldSkipBlocksAt(_blocks, headers, block.originalIndex)

\* Lines 33-45: a header is pushed whatever the flag, another block unless skipping.
KeptByLoop(_blocks, headers, block) ==
  IsHeader(block) \/ ~shouldSkipBlocksAt(_blocks, headers, block.originalIndex)

\* FilterSections reading the tag an earlier call left: a last block that already
\* carries hidden = true is taken as handled and not appended.
FilterSectionsTrustsHidden(_blocks) ==
  LET all == AnnotateAll(_blocks)
      headers == HeaderPositions(_blocks)
      Kept(block) == KeptByLoop(_blocks, headers, block)
      blocks == SelectSeq(all, Kept)
      lastOriginalBlock == At(all, Len(_blocks) - 1)
      lastFilteredBlock == At(blocks, Len(blocks) - 1)
  IN  IF lastOriginalBlock.key # lastFilteredBlock.key
         /\ At(_blocks, Len(_blocks) - 1).hidden # "true"
      THEN LET block == mapFilteredBlock(lastOriginalBlock, Len(_blocks) - 1,
                                         lastOriginalBlock.type = "ordered-list-item", "true")
           IN  [blocks |-> Append(blocks, block),
                all |-> [all EXCEPT ![Len(_blocks)] = block]]
      ELSE [blocks |-> blocks, all |-> all]

\* Lines 20-59: the loop, then the true last block is appended (hidden) when the
\* loop skipped it.  Returns [blocks, all]: the filtered array and _blocks as the
\* pass leaves it.
FilterSections(_blocks) ==
  LET all == AnnotateAll(_blocks)
      headers == HeaderPositions(_blocks)
      Kept(block) == KeptByLoop(_blocks, headers, block)
      blocks == SelectSeq(all, Kept)
      lastOriginalBlock == At(all, Len(_blocks) - 1)
      lastFilteredBlock == At(blocks, Len(blocks) - 1)
  IN  IF lastOriginalBlock.key # lastFilteredBlock.key
      THEN LET block == mapFilteredBlock(lastOriginalBlock, Len(_blocks) - 1,
                                         lastOriginalBlock.type = "ordered-list-item", "true")
           IN  [blocks |-> Append(blocks, block),
                all |-> [all EXCEPT ![Len(_blocks)] = block]]
      ELSE [blocks |-> blocks, all |-> all]

-----------------------------------------------------------------------------
(* getLazyLoadedBlockIndexes, part 2: the window selector                   *)

\* SliceBounds without line 89: end is not moved by what start was clamped by.
SliceBoundsNoShift(lazyLoadBlockIndex, LAST_BLOCK) ==
  LET BLOCK_RANGE == Floor2(MAX_LAZY_LOAD_BLOCKS)
      start0 == lazyLoadBlockIndex - BLOCK_RANGE - LAZY_LOAD_BLOCK_OFFSET
      end0 == lazyLoadBlockIndex + BLOCK_RANGE + LAZY_LOAD_BLOCK_OFFSET
      start1 == IF start0 < 0 THEN 0 ELSE start0
      end2 == IF end0 > LAST_BLOCK THEN LAST_BLOCK ELSE end0
      start2 == IF end0 > LAST_BLOCK
                THEN (IF end2 - MAX_LAZY_LOAD_BLOCKS < 0 THEN 0 ELSE end2 - MAX_LAZY_LOAD_BLOCKS)
                ELSE start1
  IN  [rawStart |-> start0, rawEnd |-> end0, start |-> start2, end |-> end2]

\* SliceBounds with line 94 pulling start back by BLOCK_RANGE, not MAX_LAZY_LOAD_BLOCKS.
SliceBoundsPullRange(lazyLoadBlockIndex, LAST_BLOCK) ==
  LET BLOCK_RANGE == Floor2(MAX_LAZY_LOAD_BLOCKS)
      start0 == lazyLoadBlockIndex - BLOCK_RANGE - LAZY_LOAD_BLOCK_OFFSET
      end0 == lazyLoadBlockIndex + BLOCK_RANGE + LAZY_LOAD_BLOCK_OFFSET
      difference == IF start0 < 0 THEN Abs(start0) ELSE 0
      start1 == IF start0 < 0 THEN 0 ELSE start0
      end1 == IF start0 < 0 THEN end0 + difference ELSE end0
      end2 == IF end1 > LAST_BLOCK THEN LAST_BLOCK ELSE end1
      start2 == IF end1 > LAST_BLOCK
                THEN (IF end2 - BLOCK_RANGE < 0 THEN 0 ELSE end2 - BLOCK_RANGE)
                ELSE start1
  IN  [rawStart |-> start0, rawEnd |-> end0, start |-> start2, end |-> end2]

\* SliceBounds with line 89 adding the difference twice.
SliceBoundsShiftTwice(lazyLoadBlockIndex, LAST_BLOCK) ==
  LET BLOCK_RANGE == Floor2(MAX_LAZY_LOAD_BLOCKS)
      start0 == lazyLoadBlockIndex - BLOCK_RANGE - LAZY_LOAD_BLOCK_OFFSET
      end0 == lazyLoadBlockIndex + BLOCK_RANGE + LAZY_LOAD_BLOCK_OFFSET
      difference == IF start0 < 0 THEN Abs(start0) ELSE 0
      start1 == IF start0 < 0 THEN 0 ELSE start0
      end1 == IF start0 < 0 THEN end0 + 2 * difference ELSE end0
      end2 == IF end1 > LAST_BLOCK THEN LAST_BLOCK ELSE end1
      start2 == IF end1 > LAST_BLOCK
                THEN (IF end2 - MAX_LAZY_LOAD_BLOCKS < 0 THEN 0 ELSE end2 - MAX_LAZY_LOAD_BLOCKS)
                ELSE start1
  IN  [rawStart |-> start0, rawEnd |-> end0, start |-> start2, end |-> end2]

\* Lines 76-99: the slice bounds [start, end] as positions of the filtered array.
\* LAST_BLOCK is blocks.length - 1.
SliceBounds(lazyLoadBlockIndex, LAST_BLOCK) ==
  LET BLOCK_RANGE == Floor2(MAX_LAZY_LOAD_BLOCKS)
      FIRST_BLOCK == 0
      start0 == lazyLoadBlockIndex - BLOCK_RANGE - LAZY_LOAD_BLOCK_OFFSET
      end0 == lazyLoadBlockIndex + BLOCK_RANGE + LAZY_LOAD_BLOCK_OFFSET
      difference == IF start0 < FIRST_BLOCK THEN Abs(start0) ELSE 0
      start1 == IF start0 < FIRST_BLOCK THEN FIRST_BLOCK ELSE start0
      end1 == IF start0 < FIRST_BLOCK THEN end0 + difference ELSE end0
      end2 == IF end1 > LAST_BLOCK THEN LAST_BLOCK ELSE end1
      start2 == IF end1 > LAST_BLOCK
                THEN (IF end2 - MAX_LAZY_LOAD_BLOCKS < FIRST_BLOCK
                      THEN FIRST_BLOCK ELSE end2 - MAX_LAZY_LOAD_BLOCKS)
                ELSE start1
  IN  [rawStart |-> start0, rawEnd |-> end0, start |-> start2, end |-> end2]

\* SliceIndexes with the loop of line 128 ending before end (i < end).
SliceIndexesExclusiveEnd(blocks, start, end) ==
  [k \in 1..(end - start) |-> At(blocks, start + k - 1).originalIndex]

\* Lines 128-132: the originalIndex of blocks[start..end], in order.
SliceIndexes(blocks, start, end) ==
  [k \in 1..(end - start + 1) |-> At(blocks, start + k - 1).originalIndex]

\* PushFirst with the test of line 110 off by one.
PushFirstOffByOne(start) == IF start > 1 THEN <<0>> ELSE <<>>

\* Lines 110-112
PushFirst(start) == IF start > 0 THEN <<0>> ELSE <<>>

\* PushAbove without the test of line 121: an end equal to the start is pushed again.
PushAboveNoDedupe(startSelectionExists, endSelectionExists, startOffsetBlockIndex, endOffsetBlockIndex, startIndexOriginal) ==
  (IF startSelectionExists
      /\ (startOffsetBlockIndex < startIndexOriginal /\ startOffsetBlockIndex # 0)
   THEN <<startOffsetBlockIndex>> ELSE <<>>)
  \o
  (IF endSelectionExists
      /\ (endOffsetBlockIndex < startIndexOriginal /\ endOffsetBlockIndex # 0)
   THEN <<endOffsetBlockIndex>> ELSE <<>>)

\* PushAbove without the tests of startSelectionExists and endSelectionExists (lines 115
\* and 120): the -1 findIndex returned for an absent key is compared like an index.
PushAboveNoExistsTest(startSelectionExists, endSelectionExists, startOffsetBlockIndex, endOffsetBlockIndex, startIndexOriginal) ==
  (IF startOffsetBlockIndex < startIndexOriginal /\ startOffsetBlockIndex # 0
   THEN <<startOffsetBlockIndex>> ELSE <<>>)
  \o
  (IF (endOffsetBlockIndex < startIndexOriginal /\ endOffsetBlockIndex # 0)
      /\ endOffsetBlockIndex # startOffsetBlockIndex
   THEN <<endOffsetBlockIndex>> ELSE <<>>)

\* Lines 114-123: the selection endpoints above the slice
PushAbove(startSelectionExists, endSelectionExists, startOffsetBlockIndex, endOffsetBlockIndex, startIndexOriginal) ==
  (IF startSelectionExists
      /\ (startOffsetBlockIndex < startIndexOriginal /\ startOffsetBlockIndex # 0)
   THEN <<startOffsetBlockIndex>> ELSE <<>>)
  \o
  (IF endSelectionExists
      /\ ((endOffsetBlockIndex < startIndexOriginal /\ endOffsetBlockIndex # 0)
          /\ endOffsetBlockIndex # startOffsetBlockIndex)
   THEN <<endOffsetBlockIndex>> ELSE <<>>)

\* PushBelow with the blocks of lines 136-138 and 141-146 in the other order: the end
\* of the selection is pushed before its start.
PushBelowEndFirst(startSelectionExists, endSelectionExists, startOffsetBlockIndex, endOffsetBlockIndex, endIndexOriginal, LAST_BLOCK) ==
  (IF endSelectionExists
      /\ ((endOffsetBlockIndex > endIndexOriginal /\ endOffsetBlockIndex # LAST_BLOCK)
          /\ endOffsetBlockIndex # startOffsetBlockIndex)
   THEN <<endOffsetBlockIndex>> ELSE <<>>)
  \o
  (IF startSelectionExists
      /\ (startOffsetBlockIndex > endIndexOriginal /\ startOffsetBlockIndex # LAST_BLOCK)
   THEN <<startOffsetBlockIndex>> ELSE <<>>)

\* Lines 135-146: the selection endpoints below the slice.  LAST_BLOCK is the last
\* position of the FILTERED array, compared here with original indexes.
PushBelow(startSelectionExists, endSelectionExists, startOffsetBlockIndex, endOffsetBlockIndex, endIndexOriginal, LAST_BLOCK) ==
  (IF startSelectionExists
      /\ (startOffsetBlockIndex > endIndexOriginal /\ startOffsetBlockIndex # LAST_BLOCK)
   THEN <<startOffsetBlockIndex>> ELSE <<>>)
  \o
  (IF endSelectionExists
      /\ ((endOffsetBlockIndex > endIndexOriginal /\ endOffsetBlockIndex # LAST_BLOCK)
          /\ endOffsetBlockIndex # startOffsetBlockIndex)
   THEN <<endOffsetBlockIndex>> ELSE <<>>)

\* Lines 148-150
PushLast(end, LAST_BLOCK, length) == IF end < LAST_BLOCK THEN <<length - 1>> ELSE <<>>

\* The whole function, with its locals.  blocksAfter is _blocks as the call leaves it.
LazyLoadLocals(es, _blocks, key) ==
  LET f == FilterSections(_blocks)
      blocks == f.blocks
      startOffsetBlockIndex == findIndex(_blocks, es.selection.startKey)
      endOffsetBlockIndex == findIndex(_blocks, es.selection.endKey)
      startSelectionExists == startOffsetBlockIndex # -1
      endSelectionExists == endOffsetBlockIndex # -1
      lazyLoadBlockIndex == findIndex(blocks, key)
      LAST_BLOCK == Len(blocks) - 1
      b == SliceBounds(lazyLoadBlockIndex, LAST_BLOCK)
      startIndexOriginal == At(blocks, b.start).originalIndex
      endIndexOriginal == At(blocks, b.end).originalIndex
      first == PushFirst(b.start)
      above == PushAbove(startSelectionExists, endSelectionExists, startOffsetBlockIndex,
                         endOffsetBlockIndex, startIndexOriginal)
      slice == SliceIndexes(blocks, b.start, b.end)
      below == PushBelow(startSelectionExists, endSelectionExists, startOffsetBlockIndex,
                         endOffsetBlockIndex, endIndexOriginal, LAST_BLOCK)
      last == PushLast(b.end, LAST_BLOCK, Len(_blocks))
  IN  [blocks |-> blocks,
       blocksAfter |-> f.all,
       startOffsetBlockIndex |-> startOffsetBlockIndex,
       endOffsetBlockIndex |-> endOffsetBlockIndex,
       lazyLoadBlockIndex |-> lazyLoadBlockIndex,
       rawStart |-> b.rawStart,
       rawEnd |-> b.rawEnd,
       start |-> b.start,
       end |-> b.end,
       startIndexOriginal |-> startIndexOriginal,
       endIndexOriginal |-> endIndexOriginal,
       first |-> first, above |-> above, slice |-> slice, below |-> below, last |-> last,
       lazyLoadBlockIndexes |-> first \o above \o slice \o below \o last]

getLazyLoadedBlockIndexes(es, _blocks, key) ==
  LazyLoadLocals(es, _blocks, key).lazyLoadBlockIndexes

-----------------------------------------------------------------------------
(* The rendered tree.  The container's children are nodes [tag, keys]: a    *)
(* block element ("DIV", one key) or a list wrapper ("OL") whose children   *)
(* are the LI elements of the keys.  An element is [node, item]: item 0 is  *)
(* the node itself, item j > 0 the j-th LI of a wrapper; Null is no element.*)

Null == [node |-> 0, item |-> 0]

\* blockRenderMap.get(blockType).wrapper, for the block render map the host passes:
\* an <ol> for ordered list items, a <ul> for unordered ones, none for the rest.
WrapperTemplate(type) ==
  IF type = "ordered-list-item" THEN "OL"
  ELSE IF type = "unordered-list-item" THEN "UL" ELSE "none"

\* render, lines 590-597: the blocks at outputBlockIndexes, an index without a block
\* dropped.
LazyLoadBlocks(outputBlockIndexes, blocksAsArray) ==
  LET Defined(i) == i >= 0 /\ i < Len(blocksAsArray)
      idx == SelectSeq(outputBlockIndexes, Defined)
  IN  [k \in 1..Len(idx) |-> At(blocksAsArray, idx[k])]

\* The end of the run of line 711-717 that starts at ii: the last position of the
\* contiguous blocks with the wrapper template of processedBlocks[ii].
RunEnd(processedBlocks, ii) ==
  CHOOSE j \in ii..Len(processedBlocks) :
    /\ \A k \in ii..j : WrapperTemplate(processedBlocks[k].type) = WrapperTemplate(processedBlocks[ii].type)
    /\ (j = Len(processedBlocks)
        \/ WrapperTemplate(processedBlocks[j + 1].type) # WrapperTemplate(processedBlocks[ii].type))

\* RunStarts with line 709 taken for every block: blocks without a wrapper template
\* are grouped like the blocks of a wrapper.
RunStartsGroupsUnwrapped(processedBlocks) ==
  {ii \in 1..Len(processedBlocks) :
     \/ ii = 1
     \/ WrapperTemplate(processedBlocks[ii].type) # WrapperTemplate(processedBlocks[ii - 1].type)}

\* render, lines 704-735: a run starts at every block without a wrapper template and
\* where the wrapper template differs from the one of the block before.
RunStarts(processedBlocks) ==
  {ii \in 1..Len(processedBlocks) :
     \/ ii = 1
     \/ WrapperTemplate(processedBlocks[ii].type) = "none"
     \/ WrapperTemplate(processedBlocks[ii].type) # WrapperTemplate(processedBlocks[ii - 1].type)}

\* render, lines 702-735: contiguous blocks with the same wrapper template share one
\* wrapper node; outputBlocks, one node per run, in order.
GroupBlocks(processedBlocks) ==
  LET starts == RunStarts(processedBlocks)
      StartOf(n) == CHOOSE ii \in starts : Cardinality({x \in starts : x <= ii}) = n
      NodeAt(ii) ==
        IF WrapperTemplate(processedBlocks[ii].type) # "none"
        THEN [tag |-> WrapperTemplate(processedBlocks[ii].type),
              keys |-> [k \in 1..(RunEnd(processedBlocks, ii) - ii + 1) |->
                          processedBlocks[ii + k - 1].key]]
        ELSE [tag |-> "DIV", keys |-> <<processedBlocks[ii].key>>]
  IN  [n \in 1..Cardinality(starts) |-> NodeAt(StartOf(n))]

\* render: the container's children for this state and these props.
Render(outputBlockIndexes, blocksAsArray) ==
  GroupBlocks(LazyLoadBlocks(outputBlockIndexes, blocksAsArray))

tagName(tree, el) == IF el.item > 0 THEN "LI" ELSE tree[el.node].tag

\* The block key in the element's data-offset-key.
offsetKey(tree, el) == IF el.item > 0 THEN tree[el.node].keys[el.item] ELSE tree[el.node].keys[1]

firstChild(tree) == IF tree = <<>> THEN Null ELSE [node |-> 1, item |-> 0]

lastChild(tree) == IF tree = <<>> THEN Null ELSE [node |-> Len(tree), item |-> 0]

nextSibling(tree, el) ==
  IF el.item > 0
  THEN (IF el.item < Len(tree[el.node].keys) THEN [el EXCEPT !.item = el.item + 1] ELSE Null)
  ELSE (IF el.node < Len(tree) THEN [node |-> el.node + 1, item |-> 0] ELSE Null)

previousSibling(tree, el) ==
  IF el.item > 0
  THEN (IF el.item > 1 THEN [el EXCEPT !.item = el.item - 1] ELSE Null)
  ELSE (IF el.node > 1 THEN [node |-> el.node - 1, item |-> 0] ELSE Null)

\* parentElement of an LI is its wrapper; of a child of the container, the container
\* (Null here: the container is no list).
parentElement(tree, el) == IF el.item > 0 THEN [node |-> el.node, item |-> 0] ELSE Null

isElementList(tree, el) == el # Null /\ tagName(tree, el) \in {"OL", "UL"}

isElementWrapped(tree, el) == tagName(tree, el) = "LI"

\* getFirstDraftBlock without line 1447: a list without children is returned itself.
getFirstDraftBlockOrSelf(tree, element, isFirst) ==
  IF element = Null THEN Null
  ELSE IF ~isElementList(tree, element) THEN element
  ELSE IF Len(tree[element.node].keys) > 0
  THEN [node |-> element.node,
        item |-> IF isFirst THEN 1 ELSE Len(tree[element.node].keys)]
  ELSE element

\* getFirstDraftBlock: the element itself when it carries an offset key and is no
\* list, else the first (isFirst) or last child of the list, else null.
getFirstDraftBlock(tree, element, isFirst) ==
  IF element = Null THEN Null
  ELSE IF ~isElementList(tree, element) THEN element
  ELSE IF Len(tree[element.node].keys) > 0
  THEN [node |-> element.node,
        item |-> IF isFirst THEN 1 ELSE Len(tree[element.node].keys)]
  ELSE Null

\* callback ? callback(element) : element, for the callbacks of lines 85-86.
Project(tree, element, callback) ==
  CASE callback = "first" -> getFirstDraftBlock(tree, element, TRUE)
    [] callback = "last" -> getFirstDraftBlock(tree, element, FALSE)
    [] OTHER -> element

\* SiblingStep without lines 1390-1392 and 1421-1423: the walk does not leave a
\* wrapper at its last (first) list item.
SiblingStepStaysInWrapper(tree, element, count, callback, forward) ==
  LET newElement == Project(tree, element, callback)
      Sibling(el) == IF forward THEN nextSibling(tree, el) ELSE previousSibling(tree, el)
  IN  IF newElement = Null THEN [done |-> TRUE, el |-> Null]
      ELSE IF count = 0 THEN [done |-> TRUE, el |-> newElement]
      ELSE IF Sibling(newElement) = Null THEN [done |-> TRUE, el |-> newElement]
      ELSE [done |-> FALSE, el |-> Sibling(newElement)]

\* One call of getNextSibling (forward) or getPreviousSibling with this element and
\* this count: it returns (done, el the result) or calls itself with el and count - 1.
SiblingStep(tree, element, count, callback, forward) ==
  LET newElement == Project(tree, element, callback)
      Sibling(el) == IF forward THEN nextSibling(tree, el) ELSE previousSibling(tree, el)
  IN  IF newElement = Null THEN [done |-> TRUE, el |-> Null]
      ELSE IF count = 0 THEN [done |-> TRUE, el |-> newElement]
      ELSE IF Sibling(newElement) = Null
      THEN (IF isElementWrapped(tree, newElement)
               /\ isElementList(tree, parentElement(tree, newElement))
               /\ Sibling(parentElement(tree, newElement)) # Null
            THEN [done |-> FALSE, el |-> Sibling(parentElement(tree, newElement))]
            ELSE [done |-> TRUE, el |-> newElement])
      ELSE [done |-> FALSE, el |-> Sibling(newElement)]

\* The chain of calls, unrolled: call[k] is the k-th nested call's outcome; the count
\* falls by one per call, so the call with count 0 returns.
SiblingWalk(tree, element, count, callback, forward) ==
  LET call[k \in 0..(count + 1)] ==
        IF k = 0 THEN [done |-> FALSE, el |-> element]
        ELSE IF call[k - 1].done THEN call[k - 1]
        ELSE SiblingStep(tree, call[k - 1].el, count - (k - 1), callback, forward)
  IN  call[count + 1].el

getNextSibling(tree, element, count, callback) ==
  SiblingWalk(tree, element, count, callback, TRUE)

getPreviousSibling(tree, element, count, callback) ==
  SiblingWalk(tree, element, count, callback, FALSE)

getTopObservableBlock(tree) ==
  getNextSibling(tree, firstChild(tree), LAZY_LOAD_BLOCK_OFFSET, "first")

getBottomObservableBlock(tree) ==
  getPreviousSibling(tree, lastChild(tree), LAZY_LOAD_BLOCK_OFFSET, "last")

\* An element as the refs hold it: elements keep their identity across renders by
\* their block key (React keys), so a ref is the block key, NoKey for null.
ElementRef(tree, el) == IF el = Null THEN NoKey ELSE offsetKey(tree, el)

\* getBlockByKey(blockKey): the block element with this key is in the document.
getBlockByKey(tree, blockKey) ==
  \E n \in 1..Len(tree) : \E j \in 1..Len(tree[n].keys) : tree[n].keys[j] = blockKey

-----------------------------------------------------------------------------
(* Inputs *)

\* "P": a paragraph; "O": a section header, open; "C": a section header, collapsed;
\* "U": a section header without an isOpen flag; "N": a nested list item;
\* "L": an unordered list item.
BlockOfKind(key, kind) ==
  CASE kind = "P" -> Block(key, "unstyled", 0, "undefined")
    [] kind = "O" -> Block(key, "ordered-list-item", 0, "true")
    [] kind = "C" -> Block(key, "ordered-list-item", 0, "false")
    [] kind = "U" -> Block(key, "ordered-list-item", 0, "undefined")
    [] kind = "N" -> Block(key, "ordered-list-item", 1, "undefined")
    [] kind = "L" -> Block(key, "unordered-list-item", 0, "undefined")

\* The document whose i-th block (0-based i = key - 1) has kind kinds[key].
DocOfKinds(kinds) == [k \in 1..Len(kinds) |-> BlockOfKind(k, kinds[k])]

HeaderCount(kinds) == Cardinality({k \in 1..Len(kinds) : kinds[k] \in {"O", "C"}})

\* Documents of 1..MaxLen blocks with at most MaxHeaders section headers.
SmallDocs ==
  UNION { { DocOfKinds(kinds) : kinds \in { f \in [1..n -> {"P", "O", "C"}] :
                                              HeaderCount(f) <= MaxHeaders } }
          : n \in 1..MaxLen }

\* Documents of 1..MaxKindsLen blocks of every kind.
KindsDocs ==
  UNION { { DocOfKinds(kinds) : kinds \in [1..n -> {"P", "O", "C", "U", "N"}] }
          : n \in 1..MaxKindsLen }

KindsConstants ==
  [MAX_LAZY_LOAD_BLOCKS |-> 3, LAZY_LOAD_BLOCK_OFFSET |-> 0, MAX_BLOCKS_TO_DISPLAY |-> 3]

\* The document of the specification's scenarios: 200 paragraphs.
ScenarioDoc == [k \in 1..200 |-> BlockOfKind(k, "P")]

\* 200 blocks with a collapsed section in the middle (indexes 20..39, reopened by the
\* header at index 40) and one that runs to the end (from index 180).
ScenarioSectionDoc ==
  [k \in 1..200 |-> BlockOfKind(k, IF k \in {21, 181} THEN "C"
                                    ELSE IF k = 41 THEN "O" ELSE "P")]

ScenarioSelections ==
  {<<NoKey, NoKey>>, <<6, 151>>, <<151, 6>>, <<6, 6>>, <<151, 200>>, <<30, 190>>, <<200, 200>>}

SmallConstants ==
  { [MAX_LAZY_LOAD_BLOCKS |-> 3, LAZY_LOAD_BLOCK_OFFSET |-> 0, MAX_BLOCKS_TO_DISPLAY |-> 3],
    [MAX_LAZY_LOAD_BLOCKS |-> 1, LAZY_LOAD_BLOCK_OFFSET |-> 1, MAX_BLOCKS_TO_DISPLAY |-> 1] }

ScenarioConstants ==
  [MAX_LAZY_LOAD_BLOCKS |-> 50, LAZY_LOAD_BLOCK_OFFSET |-> 4, MAX_BLOCKS_TO_DISPLAY |-> 50]

EditorState(blocks, startKey, endKey, blockKeyToScrollTo) ==
  [blocks |-> blocks,
   selection |-> [startKey |-> startKey, endKey |-> endKey],
   blockKeyToScrollTo |-> blockKeyToScrollTo]

\* editorState.getCurrentContent().getBlocksAsArray()
getBlocksAsArray(es) == es.blocks

NotCalled == [called |-> FALSE]

-----------------------------------------------------------------------------
(* DraftEditorContents: state, refs and lifecycle *)

\* constructor, lines 100-104; currentLazyLoad {} has no key and no direction.
InitialState ==
  [outputBlockIndexes |-> <<>>,
   currentLazyLoad |-> [key |-> NoKey, direction |-> "none"],
   currentFocusBlockKey |-> NoKey]

NoObserver == [created |-> FALSE, observing |-> NoKey]

\* constructor, lines 105-120: every ref cell starts empty (null is falsy).
\* replaced (no ref of the code) collects the observers that left their ref cell
\* while still observing an element: the browser keeps those reporting.
InitialRefs ==
  [observerLazyTop |-> NoObserver,
   observerLazyBottom |-> NoObserver,
   observedElmTop |-> NoKey,
   observedElmBottom |-> NoKey,
   isTopOfPage |-> FALSE,
   canObserve |-> FALSE,
   replaced |-> {}]

NoPending == [set |-> FALSE]

\* No timer is set.
NoTimer == [set |-> FALSE]

\* The scroll container before any layout: offset 0, topBlocksOffsetHeight.current
\* not assigned yet (Unset), no timer.
Unset == -1

NoScroll == [scrollTop |-> 0, topBlocksOffsetHeight |-> Unset, timer |-> NoTimer]

\* No helper is called on its own.
NoCall == [fn |-> "none"]

\* SetState with a copy made of every field: the index array and currentLazyLoad of
\* the queued state are never the objects of this.state.
SetStateFreshObjects(next, sameOut, sameLL) ==
  [set |-> TRUE, next |-> next, sameOut |-> FALSE, sameLL |-> FALSE]

\* this.setState(next): next replaces what was queued before it in the same batch,
\* because every call in this component spreads the whole of this.state.  sameOut
\* and sameLL say whether next.outputBlockIndexes and next.currentLazyLoad are the
\* very objects of this.state.
SetState(next, sameOut, sameLL) ==
  [set |-> TRUE, next |-> next, sameOut |-> sameOut, sameLL |-> sameLL]

\* handleUnobserve without the call of line 146.
handleUnobserveNothing(observer, element) == observer

\* handleUnobserve(observer, element)
handleUnobserve(observer, element) ==
  IF observer.created /\ observer.observing = element
  THEN [observer EXCEPT !.observing = NoKey]
  ELSE observer

\* handleCreateObservers, lines 200-275, without the scroll correction of line 223.
\* The observer a ref cell loses when line 261 or 265 overwrites it, if it still
\* observes an element.
StillObserving(observer, direction) ==
  IF observer.observing # NoKey
  THEN {[direction |-> direction, observing |-> observer.observing]}
  ELSE {}

\* ObserveElements with || read as && in line 208: one resolved element is enough.
ObserveElementsEither(r, firstChildRef, lastChildRef) ==
  IF firstChildRef = NoKey /\ lastChildRef = NoKey THEN r
  ELSE [r EXCEPT !.observerLazyTop = [created |-> TRUE, observing |-> firstChildRef],
                 !.observerLazyBottom = [created |-> TRUE, observing |-> lastChildRef],
                 !.observedElmTop = firstChildRef,
                 !.observedElmBottom = lastChildRef]

\* handleCreateObservers from line 208 on: the guard, handleUnobserve on both old
\* observers (lines 231-238), the new observers and what they observe (lines 261-274).
ObserveElements(r, firstChildRef, lastChildRef) ==
  IF firstChildRef = NoKey \/ lastChildRef = NoKey THEN r
  ELSE [r EXCEPT !.observerLazyTop = [created |-> TRUE, observing |-> firstChildRef],
                 !.observerLazyBottom = [created |-> TRUE, observing |-> lastChildRef],
                 !.observedElmTop = firstChildRef,
                 !.observedElmBottom = lastChildRef,
                 !.replaced = r.replaced
                    \cup StillObserving(handleUnobserve(r.observerLazyTop, r.observedElmTop), "TOP")
                    \cup StillObserving(handleUnobserve(r.observerLazyBottom, r.observedElmBottom),
                                        "BOTTOM")]

handleCreateObservers(tree, r) ==
  ObserveElements(r, ElementRef(tree, getTopObservableBlock(tree)),
                  ElementRef(tree, getBottomObservableBlock(tree)))

\* A DOMRect, of which only top is read; NoRect is null / undefined.
Rect(top) == [exists |-> TRUE, top |-> top]

NoRect == [exists |-> FALSE, top |-> 0]

\* newScrollPosition: null, or a number.
NullPosition == [isNull |-> TRUE, value |-> 0]

Position(value) == [isNull |-> FALSE, value |-> value]

\* if (newScrollPosition): null and 0 are falsy.
Truthy(position) == ~position.isNull /\ position.value # 0

\* scrollElm.scrollTop = value: the container does not take a negative offset; the
\* offsets written here stay below its scroll height.
SetScrollTop(value) == IF value < 0 THEN 0 ELSE value

\* What the DOM gives for the observed element of the direction: layout.top is the
\* top of getBoundingClientRect(), layout.clientRects whether getClientRects() has an
\* entry, layout.queryRect the rectangle of the element querySelector finds by the
\* offset key (NoRect when it finds none).
Layout(top, clientRects, queryRect) ==
  [top |-> top, clientRects |-> clientRects, queryRect |-> queryRect]

\* handleUpdateScrollPosition, lines 150-198: the offset of the scroll container
\* after the call.  firstChildRef and lastChildRef are element refs (NoKey for null).
handleUpdateScrollPosition(currentLazyLoad, firstChildRef, lastChildRef, firstChildParamsBefore, lastChildParamsBefore, layout, currentScroll) ==
  LET top == firstChildRef # NoKey /\ currentLazyLoad.direction = "TOP"
      bottom == ~top /\ lastChildRef # NoKey /\ currentLazyLoad.direction = "BOTTOM"
      oldRects == IF top THEN firstChildParamsBefore
                  ELSE IF bottom THEN lastChildParamsBefore ELSE NoRect
      newRects == IF top THEN (IF layout.clientRects THEN Rect(layout.top) ELSE layout.queryRect)
                  ELSE IF bottom THEN Rect(layout.top) ELSE NoRect
      newScrollPosition ==
        IF newRects.exists /\ oldRects.exists /\ newRects.top # 0 /\ oldRects.top # newRects.top
        THEN Position(currentScroll + (newRects.top - oldRects.top))
        ELSE NullPosition
  IN  IF Truthy(newScrollPosition) THEN SetScrollTop(newScrollPosition.value) ELSE currentScroll

\* handleUpdateScrollPosition of part_003, lines 487-585, called with the snapshot of
\* the direction's observed element: [scrollTop, timer] after the call.  A top of 0
\* sets a timer whose callback holds the snapshot.
handleUpdateScrollPositionDeferred(currentLazyLoad, oldRects, layout, currentScroll) ==
  LET observed == currentLazyLoad.direction \in {"TOP", "BOTTOM"}
      newScrollPosition ==
        IF observed /\ layout.top # 0
        THEN Position(currentScroll + (layout.top - oldRects.top))
        ELSE NullPosition
  IN  [scrollTop |-> IF Truthy(newScrollPosition) THEN SetScrollTop(newScrollPosition.value)
                     ELSE currentScroll,
       timer |-> IF observed /\ layout.top = 0
                 THEN [set |-> TRUE, oldRects |-> oldRects]
                 ELSE NoTimer]

\* The callback of the timer of part_003, lines 516-534 and 552-570: it reads the
\* rectangle again (top) and writes the offset.
TimerCallback(timer, top, currentScroll) ==
  SetScrollTop(currentScroll + (top - timer.oldRects.top))

\* handleCreateObservers, lines 201-229: the offset of the scroll container after the
\* call.  params holds observedElmTopParams.current and observedElmBottomParams.current.
handleCreateObserversScrollTop(tree, r, st, params, layout, currentScroll) ==
  IF \/ ElementRef(tree, getTopObservableBlock(tree)) = NoKey
     \/ ElementRef(tree, getBottomObservableBlock(tree)) = NoKey
  THEN currentScroll
  ELSE handleUpdateScrollPosition(
         st.currentLazyLoad, r.observedElmTop, r.observedElmBottom,
         IF params.top.exists THEN params.top
         ELSE IF r.observedElmTop # NoKey THEN Rect(layout.top) ELSE NoRect,
         IF params.bottom.exists THEN params.bottom
         ELSE IF r.observedElmBottom # NoKey THEN Rect(layout.top) ELSE NoRect,
         layout, currentScroll)

\* handleEditorScroll without the test of line 281.
handleEditorScrollAlways(isTopOfPage, topBlocksOffsetHeight, currentScroll) ==
  IF currentScroll < (IF topBlocksOffsetHeight = Unset THEN 0 ELSE topBlocksOffsetHeight)
  THEN SetScrollTop(topBlocksOffsetHeight)
  ELSE currentScroll

\* handleEditorScroll, lines 277-286: the offset of the scroll container after the
\* handler.  A null threshold compares as 0.
handleEditorScroll(isTopOfPage, topBlocksOffsetHeight, currentScroll) ==
  IF /\ ~isTopOfPage
     /\ currentScroll < (IF topBlocksOffsetHeight = Unset THEN 0 ELSE topBlocksOffsetHeight)
  THEN SetScrollTop(topBlocksOffsetHeight)
  ELSE currentScroll

\* componentDidMount, lines 353-361 and componentDidUpdate, lines 433-440: the
\* indexes of blocksAsArray.slice(0, MAX_BLOCKS_TO_DISPLAY).
FirstBlocksIndexes(blocksAsArray) ==
  ArrayFromLength(Len(SliceFromZero(blocksAsArray, MAX_BLOCKS_TO_DISPLAY)))

MAX_SLICE_TO_CHECK == 6

\* componentDidUpdate, lines 429-431.
areIndexesSorted(outputBlockIndexes) ==
  LET arr == SliceFromZero(outputBlockIndexes, MAX_SLICE_TO_CHECK)
  IN  \A i \in 2..Len(arr) : arr[i - 1] = arr[i] - 1

\* shouldComponentUpdate, lines 288-346, for props that differ at most in content,
\* selection and blockKeyToScrollTo (no composition, no native rendering, same
\* direction map and decorator).
shouldComponentUpdate(propsChanged, stateChanged) ==
  IF ~stateChanged /\ ~propsChanged THEN FALSE ELSE propsChanged \/ stateChanged

\* An EditorState as shouldComponentUpdate reads it: the references it compares are
\* numbers (equal numbers, the same object), id is the EditorState object itself and
\* nativelyRenderedContent is NoContent for null.
NoContent == 0

EditorStateProps(id, directionMap, hasFocus, inCompositionMode, currentContent, decorator, selection, forceSelection, nativelyRenderedContent, blockKeyToScrollTo) ==
  [id |-> id, directionMap |-> directionMap, hasFocus |-> hasFocus,
   inCompositionMode |-> inCompositionMode, currentContent |-> currentContent,
   decorator |-> decorator, selection |-> selection, forceSelection |-> forceSelection,
   nativelyRenderedContent |-> nativelyRenderedContent,
   blockKeyToScrollTo |-> blockKeyToScrollTo]

\* shouldComponentUpdate without lines 315-327: no update is skipped.
shouldComponentUpdateNoSkip(prevEditorState, nextEditorState, stateChanged) ==
  IF prevEditorState.directionMap # nextEditorState.directionMap THEN TRUE
  ELSE IF prevEditorState.hasFocus # nextEditorState.hasFocus THEN TRUE
  ELSE \/ prevEditorState.inCompositionMode # nextEditorState.inCompositionMode
       \/ prevEditorState.currentContent # nextEditorState.currentContent
       \/ prevEditorState.decorator # nextEditorState.decorator
       \/ nextEditorState.forceSelection
       \/ stateChanged
       \/ prevEditorState.selection # nextEditorState.selection
       \/ prevEditorState.blockKeyToScrollTo # nextEditorState.blockKeyToScrollTo

\* shouldComponentUpdate, lines 288-346, for any two editor states; stateChanged is
\* prevState !== nextState.
shouldComponentUpdateProps(prevEditorState, nextEditorState, stateChanged) ==
  IF prevEditorState.directionMap # nextEditorState.directionMap THEN TRUE
  ELSE IF prevEditorState.hasFocus # nextEditorState.hasFocus THEN TRUE
  ELSE IF /\ ~stateChanged
          /\ \/ prevEditorState.id = nextEditorState.id
             \/ /\ nextEditorState.nativelyRenderedContent # NoContent
                /\ nextEditorState.currentContent = nextEditorState.nativelyRenderedContent
             \/ prevEditorState.inCompositionMode /\ nextEditorState.inCompositionMode
  THEN FALSE
  ELSE \/ prevEditorState.inCompositionMode # nextEditorState.inCompositionMode
       \/ prevEditorState.currentContent # nextEditorState.currentContent
       \/ prevEditorState.decorator # nextEditorState.decorator
       \/ nextEditorState.forceSelection
       \/ stateChanged
       \/ prevEditorState.selection # nextEditorState.selection
       \/ prevEditorState.blockKeyToScrollTo # nextEditorState.blockKeyToScrollTo

-----------------------------------------------------------------------------
(* Specification of getLazyLoadedBlockIndexes: the inputs are drawn in Init, *)
(* CallSelect applies the function.                                          *)

InitSmall ==
  /\ constants \in SmallConstants
  /\ \E doc \in SmallDocs :
       \E sk \in 0..Len(doc), ek \in 0..Len(doc) :
         editorState = EditorState(doc, sk, ek, NoKey)
  /\ initialBlockKey \in 0..Len(editorState.blocks)

InitScenario ==
  /\ constants = ScenarioConstants
  /\ \E doc \in {ScenarioDoc, ScenarioSectionDoc}, sel \in ScenarioSelections :
       editorState = EditorState(doc, sel[1], sel[2], NoKey)
  /\ initialBlockKey \in 0..Len(editorState.blocks)

InitKinds ==
  /\ constants = KindsConstants
  /\ \E doc \in KindsDocs : editorState = EditorState(doc, NoKey, NoKey, NoKey)
  /\ initialBlockKey \in 0..Len(editorState.blocks)

Init ==
  /\ InitKinds \/ InitSmall \/ InitScenario
  /\ pc = "ready"
  /\ ret = NotCalled
  /\ retBefore = NotCalled
  /\ phase = "unused"
  /\ state = InitialState
  /\ pending = NoPending
  /\ dom = <<>>
  /\ refs = InitialRefs
  /\ scroll = NoScroll
  /\ helper = NoCall

CallSelect ==
  /\ pc = "ready"
  /\ ret' = LazyLoadLocals(editorState, getBlocksAsArray(editorState), initialBlockKey)
  /\ editorState' = [editorState EXCEPT !.blocks = ret'.blocksAfter]
  /\ pc' = "returned"
  /\ UNCHANGED <<constants, initialBlockKey, retBefore>>
  /\ UNCHANGED componentVars
  /\ UNCHANGED helperVars

\* The caller calls again with the same arguments: the same editor state, the block
\* objects as the first call left them, the same key.
CallSelectAgain ==
  /\ pc = "returned"
  /\ retBefore' = ret
  /\ ret' = LazyLoadLocals(editorState, getBlocksAsArray(editorState), initialBlockKey)
  /\ editorState' = [editorState EXCEPT !.blocks = ret'.blocksAfter]
  /\ pc' = "returnedAgain"
  /\ UNCHANGED <<constants, initialBlockKey>>
  /\ UNCHANGED componentVars
  /\ UNCHANGED helperVars

Next == CallSelect \/ CallSelectAgain

Spec == Init /\ [][Next]_vars

\* The selector with any constants: MAX_LAZY_LOAD_BLOCKS in 0..MaxWindow and
\* LAZY_LOAD_BLOCK_OFFSET in 0..MaxOffset.
MaxWindow == 4

MaxOffset == 2

\* The longest document of that specification.
MaxAnyLen == 4

AnyConstants ==
  [MAX_LAZY_LOAD_BLOCKS : 0..MaxWindow, LAZY_LOAD_BLOCK_OFFSET : 0..MaxOffset,
   MAX_BLOCKS_TO_DISPLAY : {MaxWindow}]

AnyDocs ==
  UNION { { DocOfKinds(kinds) : kinds \in [1..n -> {"P", "O", "C"}] } : n \in 1..MaxAnyLen }

InitAny ==
  /\ constants \in AnyConstants
  /\ \E doc \in AnyDocs : editorState = EditorState(doc, NoKey, NoKey, NoKey)
  /\ initialBlockKey \in 0..Len(editorState.blocks)
  /\ pc = "ready"
  /\ ret = NotCalled
  /\ retBefore = NotCalled
  /\ phase = "unused"
  /\ state = InitialState
  /\ pending = NoPending
  /\ dom = <<>>
  /\ refs = InitialRefs
  /\ scroll = NoScroll
  /\ helper = NoCall

SpecAny == InitAny /\ [][Next]_vars

-----------------------------------------------------------------------------
(* Vocabulary of the properties of getLazyLoadedBlockIndexes *)

Returned == pc = "returned"

DocLength == Len(editorState.blocks)

Output == ret.lazyLoadBlockIndexes

Occurrences(seq, x) == Cardinality({i \in DOMAIN seq : seq[i] = x})

Range(seq) == {seq[i] : i \in DOMAIN seq}

\* <<a, a+1, ..., b>>
Interval(a, b) == [k \in 1..(b - a + 1) |-> a + k - 1]

StrictlyAscending(seq) == \A i \in 1..(Len(seq) - 1) : seq[i] < seq[i + 1]

FocusFound == ret.lazyLoadBlockIndex # -1

\* Block i (0-based) lies inside a collapsed section: it is no header and the nearest
\* header before it has isOpen = false.
InsideCollapsed(doc, i) ==
  /\ ~IsHeader(At(doc, i))
  /\ \E h \in 0..(i - 1) :
       /\ IsHeader(At(doc, h))
       /\ At(doc, h).isOpen = "false"
       /\ \A j \in (h + 1)..(i - 1) : ~IsHeader(At(doc, j))

\* Some block lies inside a collapsed section: a collapsed header is directly followed
\* by a block that is no header.
HasCollapsedMember(doc) ==
  \E h \in 0..(Len(doc) - 2) :
    /\ IsHeader(At(doc, h)) /\ At(doc, h).isOpen = "false"
    /\ ~IsHeader(At(doc, h + 1))

\* The original indexes the section filter keeps: every block outside a collapsed
\* section, and the last block.
KeptIndexes(doc) ==
  {i \in 0..(Len(doc) - 1) : ~InsideCollapsed(doc, i) \/ i = Len(doc) - 1}

\* Original index of the block with this key, -1 when no block has it.
IndexOfKey(doc, key) ==
  IF \E i \in 0..(Len(doc) - 1) : At(doc, i).key = key
  THEN CHOOSE i \in 0..(Len(doc) - 1) : At(doc, i).key = key
  ELSE -1

SelStartIndex == IndexOfKey(editorState.blocks, editorState.selection.startKey)

SelEndIndex == IndexOfKey(editorState.blocks, editorState.selection.endKey)

\* floor(maxWindowSize / 2) + edgeOffset
Reach == (MAX_LAZY_LOAD_BLOCKS \div 2) + LAZY_LOAD_BLOCK_OFFSET

IsScenario == constants = ScenarioConstants /\ ~HasCollapsedMember(editorState.blocks) /\ DocLength = 200

-----------------------------------------------------------------------------
(* C1: for a document longer than maxWindowSize and a focus key present in  *)
(* the filtered sequence, the returned list contains original index 0 and   *)
(* original index length-1.                                                 *)
C1_FirstAndLastResident ==
  (Returned /\ DocLength > MAX_LAZY_LOAD_BLOCKS /\ FocusFound)
    => (0 \in Range(Output) /\ (DocLength - 1) \in Range(Output))

\* A collapsed section exists and the slice reaches neither end of the filtered array.
C1_Witness ==
  /\ Returned /\ DocLength > MAX_LAZY_LOAD_BLOCKS /\ FocusFound
  /\ HasCollapsedMember(editorState.blocks)
  /\ ret.start > 0 /\ ret.end < Len(ret.blocks) - 1
  /\ 0 \in Range(Output) /\ (DocLength - 1) \in Range(Output)

(* C2 as stated: for a document of length <= maxWindowSize, whatever the    *)
(* sections' state, the result is every original index 0..length-1 once,    *)
(* ascending.                                                               *)
C2_Original ==
  (Returned /\ DocLength <= MAX_LAZY_LOAD_BLOCKS)
    => Output = Interval(0, DocLength - 1)

(* C2 amended: for a document of length <= maxWindowSize the result is,     *)
(* ascending and once each, exactly the original indexes the section filter *)
(* keeps (the blocks outside collapsed sections, and the last block); with  *)
(* no collapsed section that is every index 0..length-1.                    *)
C2_WholeFilteredDocument ==
  (Returned /\ DocLength <= MAX_LAZY_LOAD_BLOCKS)
    => /\ StrictlyAscending(Output)
       /\ Range(Output) = KeptIndexes(editorState.blocks)
       /\ (~HasCollapsedMember(editorState.blocks) => Output = Interval(0, DocLength - 1))

C2_Witness ==
  /\ Returned /\ DocLength <= MAX_LAZY_LOAD_BLOCKS /\ DocLength >= 3
  /\ HasCollapsedMember(editorState.blocks)
  /\ Len(Output) < DocLength
  /\ FocusFound

(* C3: no original index occurs more than once in the returned list, for    *)
(* all inputs (a selection endpoint on the true last block while collapsed  *)
(* sections exist included).                                                *)
C3_NoDuplicates ==
  Returned => \A x \in Range(Output) : Occurrences(Output, x) = 1

(* C4: a selection start or end key that resolves to an original index      *)
(* outside the slice (before its first or after its last original index)    *)
(* is in the output exactly once, also with collapsed sections.             *)
C4_OffScreenSelectionOnce ==
  Returned =>
    \A idx \in {SelStartIndex, SelEndIndex} :
      (idx # -1 /\ (idx < ret.startIndexOriginal \/ idx > ret.endIndexOriginal))
        => Occurrences(Output, idx) = 1

-----------------------------------------------------------------------------
\* 0-based index of the focus block in the document, -1 when no block has the key.
FocusIndex == IndexOfKey(editorState.blocks, initialBlockKey)

\* The selection endpoints strictly inside (lo, hi), as original indexes.
EndpointsBetween(lo, hi) ==
  {idx \in {SelStartIndex, SelEndIndex} : idx # -1 /\ lo < idx /\ idx < hi}

\* The k entries of seq that follow its first n entries, as a set.
RangeOfPart(seq, n, k) == {seq[i] : i \in (n + 1)..(n + k)}

(* C5: no collapsed section, focus at index f with r = floor(max/2)+offset, *)
(* r < f and f + r < N-1: the result is 0, then the selection endpoints     *)
(* below f-r other than 0, then f-r..f+r ascending, then the selection      *)
(* endpoints above f+r other than N-1, then N-1.                            *)
C5_CenteredWindow ==
  (Returned /\ ~HasCollapsedMember(editorState.blocks) /\ FocusIndex # -1
     /\ Reach < FocusIndex /\ FocusIndex + Reach < DocLength - 1)
    => LET f == FocusIndex
           above == EndpointsBetween(0, f - Reach)
           below == EndpointsBetween(f + Reach, DocLength - 1)
           na == Cardinality(above)
           nb == Cardinality(below)
           w == 2 * Reach + 1
       IN  /\ Len(Output) = 1 + na + w + nb + 1
           /\ Output[1] = 0
           /\ RangeOfPart(Output, 1, na) = above
           /\ SubSeq(Output, 2 + na, 1 + na + w) = Interval(f - Reach, f + Reach)
           /\ RangeOfPart(Output, 1 + na + w, nb) = below
           /\ Output[Len(Output)] = DocLength - 1

\* The scenario of the specification: 200 blocks, 50/4, focus 100, selection 5..150.
C5_Witness ==
  /\ Returned /\ IsScenario
  /\ initialBlockKey = 101
  /\ editorState.selection = [startKey |-> 6, endKey |-> 151]
  /\ Output = <<0, 5>> \o Interval(71, 129) \o <<150, 199>>

(* C6 as stated: 200 blocks, no collapsed section, 50/4, focus at index 10: *)
(* raw start -19, start = 0, end = 77, output exactly [0..77].              *)
C6_Original ==
  (Returned /\ IsScenario /\ initialBlockKey = 11
     /\ editorState.selection = [startKey |-> NoKey, endKey |-> NoKey])
    => /\ ret.rawStart = -19
       /\ ret.start = 0
       /\ ret.end = 77
       /\ Output = Interval(0, 77)

(* C6 amended: in that scenario (and no selection) the raw start is -19,    *)
(* the clamp sets start = 0 and end = 39 + 19 = 58, and the output is       *)
(* exactly [0..58] followed by the last-block marker 199.                   *)
C6_TopClamp ==
  (Returned /\ IsScenario /\ initialBlockKey = 11
     /\ editorState.selection = [startKey |-> NoKey, endKey |-> NoKey])
    => /\ ret.rawStart = -19
       /\ ret.start = 0
       /\ ret.end = 58
       /\ Output = Interval(0, 58) \o <<199>>

C6_Witness ==
  /\ Returned /\ IsScenario /\ initialBlockKey = 11
  /\ editorState.selection = [startKey |-> NoKey, endKey |-> NoKey]
  /\ ret.rawStart = -19 /\ ret.rawEnd = 39
  /\ Len(Output) = 60

\* Last position of the filtered array.
LastFiltered == Len(ret.blocks) - 1

Max(a, b) == IF a > b THEN a ELSE b

Min(a, b) == IF a < b THEN a ELSE b

(* C7: when focusIndex + floor(max/2) + offset exceeds the last filtered    *)
(* position L, the slice is the filtered positions [max(0, L - max) .. L]   *)
(* and no separate last-block marker is emitted.                            *)
C7_EndClamp ==
  (Returned /\ FocusFound /\ ret.lazyLoadBlockIndex + Reach > LastFiltered)
    => LET L == LastFiltered
           s == Max(0, L - MAX_LAZY_LOAD_BLOCKS)
           w == L - s + 1
       IN  /\ ret.start = s
           /\ ret.end = L
           /\ Len(Output) >= w
           /\ SubSeq(Output, Len(Output) - w + 1, Len(Output))
                = [k \in 1..w |-> At(ret.blocks, s + k - 1).originalIndex]
           /\ Occurrences(Output, DocLength - 1) = 1

\* The clamp pulls start back to a position > 0 in a document with a collapsed section.
C7_Witness ==
  /\ Returned /\ FocusFound /\ ret.lazyLoadBlockIndex + Reach > LastFiltered
  /\ HasCollapsedMember(editorState.blocks)
  /\ ret.start = LastFiltered - MAX_LAZY_LOAD_BLOCKS /\ ret.start > 0
  /\ ret.lazyLoadBlockIndex < LastFiltered
  /\ Output[Len(Output)] = DocLength - 1

(* C8: when the focus key is the key of no filtered block, the result is    *)
(* the no-focus result: the first maxWindowSize filtered entries in         *)
(* original order plus the last-block marker, not a larger slice.           *)
C8_AbsentFocusFallback ==
  (Returned /\ ~FocusFound
     /\ editorState.selection = [startKey |-> NoKey, endKey |-> NoKey])
    => LET n == Min(MAX_LAZY_LOAD_BLOCKS, Len(ret.blocks))
       IN  Output = [k \in 1..n |-> At(ret.blocks, k - 1).originalIndex]
                      \o (IF n < Len(ret.blocks) THEN <<DocLength - 1>> ELSE <<>>)


\* What the call returns for the same blocks and key when the editor has no selection.
NoSelectionOutput ==
  getLazyLoadedBlockIndexes([editorState EXCEPT !.selection = [startKey |-> NoKey, endKey |-> NoKey]],
                            getBlocksAsArray(editorState), initialBlockKey)

\* The original indexes of the selection endpoints whose key some block has.
PresentEndpoints == {SelStartIndex, SelEndIndex} \ {-1}

(* C11: when the selection's start key or end key is the key of no block,   *)
(* the call returns normally, the output holds no entry for that endpoint   *)
(* (the off-screen entries are indexes of the endpoints that exist), and    *)
(* the rest of the output is the output without a selection.                *)
C11_AbsentEndpointIgnored ==
  (Returned /\ (SelStartIndex = -1 \/ SelEndIndex = -1))
    => /\ Output = ret.first \o ret.above \o ret.slice \o ret.below \o ret.last
       /\ Range(ret.above \o ret.below) \subseteq PresentEndpoints
       /\ ret.first \o ret.slice \o ret.last = NoSelectionOutput
       /\ (PresentEndpoints = {} => Output = NoSelectionOutput)

\* The start key is absent and the end key's block is emitted below the slice.
C11_Witness ==
  /\ Returned /\ SelStartIndex = -1 /\ SelEndIndex # -1
  /\ ret.below = <<SelEndIndex>>
  /\ ret.above = <<>>
  /\ Output # NoSelectionOutput

\* The originalIndex of the entries of the filtered array, in its order.
FilteredOriginalIndexes == [k \in 1..Len(ret.blocks) |-> ret.blocks[k].originalIndex]

(* C12: the filtered array holds, in document order and with originalIndex  *)
(* = position in the document, exactly the headers (depth-0 ordered list    *)
(* items), the blocks whose nearest header before them is absent or has an  *)
(* isOpen other than false, and the last block of the document; the blocks  *)
(* left out are exactly the members of collapsed sections, the last block   *)
(* excepted.  Stated of the documents of at most MaxLen blocks.             *)
C12_FilterKeepsOpenBlocks ==
  (Returned /\ DocLength <= MaxLen)
    => /\ StrictlyAscending(FilteredOriginalIndexes)
       /\ Range(FilteredOriginalIndexes) = KeptIndexes(editorState.blocks)
       /\ \A k \in 1..Len(ret.blocks) :
            ret.blocks[k].key = At(editorState.blocks, ret.blocks[k].originalIndex).key
       /\ DocLength - Len(ret.blocks)
            = Cardinality({i \in 0..(DocLength - 2) : InsideCollapsed(editorState.blocks, i)})

\* One collapsed section with two members left out, one of them a nested list item,
\* and a last block that the loop keeps.
C12_Witness ==
  /\ Returned
  /\ Len(ret.blocks) = DocLength - 2
  /\ \E i \in 0..(DocLength - 2) :
       /\ InsideCollapsed(editorState.blocks, i)
       /\ At(editorState.blocks, i).type = "ordered-list-item"
  /\ ~InsideCollapsed(editorState.blocks, DocLength - 1)

(* C13: for a non-empty document the filtered array is non-empty and its    *)
(* final entry has originalIndex = length - 1; the final entry is tagged    *)
(* hidden = true exactly when the last block of the document lies inside a  *)
(* collapsed section, and every other entry is tagged hidden = false.       *)
C13_LastEntryIsLastBlock ==
  Returned
    => /\ Len(ret.blocks) > 0
       /\ ret.blocks[Len(ret.blocks)].originalIndex = DocLength - 1
       /\ ret.blocks[Len(ret.blocks)].hidden
            = BoolStr(InsideCollapsed(editorState.blocks, DocLength - 1))
       /\ \A k \in 1..(Len(ret.blocks) - 1) : ret.blocks[k].hidden = "false"

\* The last block is inside a collapsed section: the loop skipped it, it is appended
\* hidden after entries that are not hidden.
C13_Witness ==
  /\ Returned
  /\ InsideCollapsed(editorState.blocks, DocLength - 1)
  /\ Len(ret.blocks) > 1 /\ Len(ret.blocks) < DocLength
  /\ ret.blocks[Len(ret.blocks)].hidden = "true"
  /\ ret.blocks[Len(ret.blocks) - 1].hidden = "false"

(* C14: a call leaves every block object of the document as the             *)
(* collaborator passed it: no originalIndex, isSection or hidden is written *)
(* on a source block.                                                       *)
C14_SourceBlocksUntouched ==
  Returned
    => \A k \in 1..DocLength :
         editorState.blocks[k] = Block(editorState.blocks[k].key, editorState.blocks[k].type,
                                       editorState.blocks[k].depth, editorState.blocks[k].isOpen)

(* C15: no block inside a collapsed section is in the output, the last      *)
(* block of the document excepted; a selection endpoint inside a collapsed  *)
(* section is not emitted.                                                  *)
C15_NoCollapsedMemberInOutput ==
  (Returned /\ DocLength <= MaxLen)
    => \A i \in Range(Output) :
         i = DocLength - 1 \/ ~InsideCollapsed(editorState.blocks, i)

\* The longest slice: 2 * (floor(max / 2) + offset) + 1 entries around the focus, or
\* max + 1 entries when the end clamp pulls start back (line 94).
MaxSliceLength == Max(2 * Reach + 1, MAX_LAZY_LOAD_BLOCKS + 1)

(* C16 as stated: the output has at most maxWindowSize + 4 entries.         *)
C16_Original == Returned => Len(Output) <= MAX_LAZY_LOAD_BLOCKS + 4

(* C16, amended: the slice has at most max(2 * (floor(maxWindowSize / 2) +  *)
(* edgeOffset) + 1, maxWindowSize + 1) entries and the discontiguous        *)
(* insertions (first block, last block, selection endpoints) add at most 4. *)
C16_OutputLengthBound ==
  Returned
    => /\ Len(ret.slice) <= MaxSliceLength
       /\ Len(Output) - Len(ret.slice) <= 4
       /\ Len(Output) <= MaxSliceLength + 4

\* The bound is met: a full slice, the first and the last block and both selection
\* endpoints off screen, more than maxWindowSize + 4 entries in all.
C16_Witness ==
  /\ Returned
  /\ Len(Output) = MaxSliceLength + 4
  /\ Len(Output) > MAX_LAZY_LOAD_BLOCKS + 4
  /\ Len(ret.above) = 1 /\ Len(ret.below) = 1

ReturnedAgain == pc = "returnedAgain"

(* C17: a second call with the same block sequence, selection and focus key *)
(* returns the index list of the first call, although the first call has    *)
(* written its tags on the block objects; the filtered array is the same    *)
(* too.                                                                     *)
C17_SecondCallSameResult ==
  ReturnedAgain
    => /\ ret.lazyLoadBlockIndexes = retBefore.lazyLoadBlockIndexes
       /\ ret.blocks = retBefore.blocks

\* The first call appended the last block tagged hidden, the second call got the
\* blocks with that tag on them.
C17_Witness ==
  /\ ReturnedAgain
  /\ retBefore.blocks[Len(retBefore.blocks)].hidden = "true"
  /\ editorState.blocks[DocLength].hidden = "true"
  /\ DocLength - 1 \in Range(ret.lazyLoadBlockIndexes)
  /\ ret.lazyLoadBlockIndexes = retBefore.lazyLoadBlockIndexes

-----------------------------------------------------------------------------
(* DraftEditorContents.componentDidUpdate, lines 395-556.  prevES and es are *)
(* prevProps.editorState and this.props.editorState, propsChanged whether    *)
(* they are different objects; st is this.state, sameOut and sameLL whether  *)
(* its outputBlockIndexes and currentLazyLoad are the objects of prevState;  *)
(* tree is what render of st and es left in the container, r the refs.       *)
(* The parts pass on c: the local outputBlockIndexes, the blocks as the      *)
(* selector annotated them, the refs, and the state update queued so far.    *)

\* "Calculate indexes to render", lines 401-450, when the condition of line 403
\* holds; locals is what getLazyLoadedBlockIndexes computes for currentLazyLoad.key.
CalculateIndexesToRender(es, st, r, locals) ==
  IF st.currentLazyLoad.key # NoKey
  THEN [outputBlockIndexes |-> locals.lazyLoadBlockIndexes,
        blocks |-> locals.blocksAfter,
        pending |-> SetState([st EXCEPT !.outputBlockIndexes = locals.lazyLoadBlockIndexes],
                             FALSE, TRUE),
        refs |-> [r EXCEPT !.isTopOfPage = areIndexesSorted(locals.lazyLoadBlockIndexes)]]
  ELSE [outputBlockIndexes |-> FirstBlocksIndexes(getBlocksAsArray(es)),
        blocks |-> getBlocksAsArray(es),
        pending |-> SetState([st EXCEPT !.outputBlockIndexes =
                                          FirstBlocksIndexes(getBlocksAsArray(es))],
                             FALSE, TRUE),
        refs |-> [r EXCEPT !.isTopOfPage = TRUE]]

\* "Events on indexes change", lines 456-499, after the part above left c.
EventsOnIndexesChange(c, indexesChanged, tree) ==
  LET isDOMUpdated ==
        \/ c.refs.observedElmTop # ElementRef(tree, getTopObservableBlock(tree))
        \/ c.refs.observedElmBottom # ElementRef(tree, getBottomObservableBlock(tree))
      shouldLazyLoad == Len(c.outputBlockIndexes) > MAX_LAZY_LOAD_BLOCKS
  IN  IF indexesChanged /\ c.refs.canObserve /\ shouldLazyLoad /\ tree # <<>> /\ isDOMUpdated
      THEN [c EXCEPT !.refs = handleCreateObservers(tree, c.refs)]
      ELSE c

\* FocusOnTheBlock without lines 511-520: the observers go on observing.
FocusOnTheBlockKeepsObserving(c, prevES, es, st) ==
  IF /\ es.blockKeyToScrollTo # prevES.blockKeyToScrollTo
     /\ es.blockKeyToScrollTo # NoKey
     /\ es.blockKeyToScrollTo # st.currentLazyLoad.key
  THEN [c EXCEPT
          !.pending = SetState([st EXCEPT !.currentFocusBlockKey = es.blockKeyToScrollTo,
                                          !.currentLazyLoad = [key |-> es.blockKeyToScrollTo,
                                                               direction |-> "FOCUS"]],
                               TRUE, FALSE)]
  ELSE c

\* "Focus on the block", lines 505-533.
FocusOnTheBlock(c, prevES, es, st) ==
  IF /\ es.blockKeyToScrollTo # prevES.blockKeyToScrollTo
     /\ es.blockKeyToScrollTo # NoKey
     /\ es.blockKeyToScrollTo # st.currentLazyLoad.key
  THEN [c EXCEPT
          !.refs.observerLazyTop = handleUnobserve(c.refs.observerLazyTop, c.refs.observedElmTop),
          !.refs.observerLazyBottom = handleUnobserve(c.refs.observerLazyBottom, c.refs.observedElmBottom),
          !.refs.canObserve = FALSE,
          !.pending = SetState([st EXCEPT !.currentFocusBlockKey = es.blockKeyToScrollTo,
                                          !.currentLazyLoad = [key |-> es.blockKeyToScrollTo,
                                                               direction |-> "FOCUS"]],
                               TRUE, FALSE)]
  ELSE c

\* FocusOnTheBlockAfterLoadingTheDOM without lines 546-547: observation stays
\* suspended and no observer is created.
FocusOnTheBlockAfterLoadingTheDOMNoResume(c, indexesChanged, prevState, st, tree) ==
  IF /\ indexesChanged \/ st.currentFocusBlockKey # prevState.currentFocusBlockKey
     /\ st.currentFocusBlockKey # NoKey
     /\ getBlockByKey(tree, st.currentFocusBlockKey)
  THEN [c EXCEPT
          !.pending = SetState([st EXCEPT !.currentFocusBlockKey = NoKey], TRUE, TRUE)]
  ELSE c

\* "Focus on the block after loading the DOM", lines 539-555.
FocusOnTheBlockAfterLoadingTheDOM(c, indexesChanged, prevState, st, tree) ==
  IF /\ indexesChanged \/ st.currentFocusBlockKey # prevState.currentFocusBlockKey
     /\ st.currentFocusBlockKey # NoKey
     /\ getBlockByKey(tree, st.currentFocusBlockKey)
  THEN [c EXCEPT
          !.refs = handleCreateObservers(tree, [c.refs EXCEPT !.canObserve = TRUE]),
          !.pending = SetState([st EXCEPT !.currentFocusBlockKey = NoKey], TRUE, TRUE)]
  ELSE c

\* A recomputed index array is a new object, so for line 456 and line 540 the indexes
\* changed when they were recomputed or the state brought a new array.
componentDidUpdate(prevES, es, propsChanged, prevState, st, sameOut, sameLL, tree, r) ==
  FocusOnTheBlockAfterLoadingTheDOM(
    FocusOnTheBlock(
      EventsOnIndexesChange(
        IF propsChanged \/ ~sameLL
        THEN CalculateIndexesToRender(es, st, r,
               LazyLoadLocals(es, getBlocksAsArray(es), st.currentLazyLoad.key))
        ELSE [outputBlockIndexes |-> st.outputBlockIndexes, blocks |-> getBlocksAsArray(es),
              pending |-> NoPending, refs |-> r],
        propsChanged \/ ~sameLL \/ ~sameOut, tree),
      prevES, es, st),
    propsChanged \/ ~sameLL \/ ~sameOut, prevState, st, tree)

-----------------------------------------------------------------------------
(* Specification of DraftEditorContents: the component is mounted on a      *)
(* document, then the host passes new editor states (a section toggled, the *)
(* selection moved, a block asked to be scrolled to), the observers report  *)
(* intersections, and React processes the queued state updates.  An update  *)
(* queued in a lifecycle method is processed before the next event.         *)

ComponentConstants ==
  { [MAX_LAZY_LOAD_BLOCKS |-> 2, LAZY_LOAD_BLOCK_OFFSET |-> 1, MAX_BLOCKS_TO_DISPLAY |-> 4],
    [MAX_LAZY_LOAD_BLOCKS |-> 2, LAZY_LOAD_BLOCK_OFFSET |-> 1, MAX_BLOCKS_TO_DISPLAY |-> 2] }

ComponentDocs ==
  { DocOfKinds(<<"P", "P", "P", "P", "P", "P", "P", "P">>),
    DocOfKinds(<<"P", "C", "P", "P", "O", "P", "P", "P">>),
    DocOfKinds(<<"P", "O", "N", "P", "P", "P", "C", "P">>),
    DocOfKinds(<<"P", "P">>) }

ComponentSelections == {<<NoKey, NoKey>>, <<1, 1>>, <<3, 7>>}

KeysOf(blocksAsArray) == {blocksAsArray[i].key : i \in 1..Len(blocksAsArray)}

InitComp ==
  /\ constants \in ComponentConstants
  /\ \E doc \in ComponentDocs, sel \in ComponentSelections :
       editorState = EditorState(doc, sel[1], sel[2], NoKey)
  /\ initialBlockKey = NoKey
  /\ pc = "unused"
  /\ ret = NotCalled
  /\ retBefore = NotCalled
  /\ phase = "constructed"
  /\ state = InitialState
  /\ pending = NoPending
  /\ dom = <<>>
  /\ refs = InitialRefs
  /\ scroll = NoScroll
  /\ helper = NoCall

\* The first render, then componentDidMount (lines 348-374).
Mount ==
  /\ phase = "constructed"
  /\ phase' = "mounted"
  /\ dom' = Render(state.outputBlockIndexes, getBlocksAsArray(editorState))
  /\ pending' = SetState([state EXCEPT !.outputBlockIndexes =
                                         FirstBlocksIndexes(getBlocksAsArray(editorState))],
                         FALSE, TRUE)
  /\ refs' = [refs EXCEPT !.canObserve = TRUE, !.isTopOfPage = TRUE]
  /\ UNCHANGED <<constants, editorState, state>>
  /\ UNCHANGED selectVars
  /\ UNCHANGED helperVars

\* React processes the queued update: shouldComponentUpdate, render, commit,
\* componentDidUpdate with the state it replaced.
Flush ==
  /\ phase = "mounted"
  /\ pending.set
  /\ shouldComponentUpdate(FALSE, TRUE)
  /\ state' = pending.next
  /\ dom' = Render(state'.outputBlockIndexes, getBlocksAsArray(editorState))
  /\ \E cdu \in {componentDidUpdate(editorState, editorState, FALSE, state, state',
                                     pending.sameOut, pending.sameLL, dom', refs)} :
       /\ editorState' = [editorState EXCEPT !.blocks = cdu.blocks]
       /\ refs' = cdu.refs
       /\ pending' = cdu.pending
  /\ UNCHANGED <<constants, phase>>
  /\ UNCHANGED selectVars
  /\ UNCHANGED helperVars

\* The parent renders the component with a new editor state.
ReceiveProps(nextEditorState) ==
  /\ phase = "mounted"
  /\ ~pending.set
  /\ shouldComponentUpdate(TRUE, FALSE)
  /\ dom' = Render(state.outputBlockIndexes, getBlocksAsArray(nextEditorState))
  /\ \E cdu \in {componentDidUpdate(editorState, nextEditorState, TRUE, state, state,
                                     TRUE, TRUE, dom', refs)} :
       /\ editorState' = [nextEditorState EXCEPT !.blocks = cdu.blocks]
       /\ refs' = cdu.refs
       /\ pending' = cdu.pending
  /\ UNCHANGED <<constants, phase, state>>
  /\ UNCHANGED selectVars
  /\ UNCHANGED helperVars

\* The user opens or collapses a section: the header is a new block object, so it
\* carries none of the selector's annotations.
ToggleSection ==
  \E i \in 1..Len(editorState.blocks) :
    /\ IsHeader(editorState.blocks[i])
    /\ editorState.blocks[i].isOpen \in {"true", "false"}
    /\ ReceiveProps([editorState EXCEPT !.blocks[i] =
         Block(editorState.blocks[i].key, editorState.blocks[i].type,
               editorState.blocks[i].depth,
               IF editorState.blocks[i].isOpen = "true" THEN "false" ELSE "true")])

\* The longest document the user's typing makes of a shorter one.
MaxTypedLen == 3

\* The user splits the last block of a short document: the content has one more
\* block, with a key no other block has.
SplitLastBlock ==
  /\ Len(editorState.blocks) < MaxTypedLen
  /\ \E nextBlocks \in {Append(editorState.blocks,
                                BlockOfKind(Len(editorState.blocks) + 1, "P"))} :
       ReceiveProps([editorState EXCEPT !.blocks = nextBlocks])

ChangeSelection ==
  \E sel \in ComponentSelections :
    /\ sel # <<editorState.selection.startKey, editorState.selection.endKey>>
    /\ ReceiveProps([editorState EXCEPT !.selection = [startKey |-> sel[1], endKey |-> sel[2]]])

\* The host asks for a block to be scrolled to, or clears its request.
RequestScrollTo ==
  \E blockKey \in KeysOf(editorState.blocks) \cup {NoKey} :
    /\ blockKey # editorState.blockKeyToScrollTo
    /\ ReceiveProps([editorState EXCEPT !.blockKeyToScrollTo = blockKey])

\* Intersect without line 243: the observer goes on observing after it reported.
IntersectKeepsObserving(observer, direction) ==
  /\ phase = "mounted"
  /\ ~pending.set
  /\ refs[observer].observing # NoKey
  /\ getBlockByKey(dom, refs[observer].observing)
  /\ pending' = SetState([state EXCEPT !.currentLazyLoad =
                                         [key |-> refs[observer].observing,
                                          direction |-> direction]],
                         TRUE, FALSE)
  /\ UNCHANGED <<constants, editorState, phase, state, dom, refs>>
  /\ UNCHANGED selectVars
  /\ UNCHANGED helperVars

\* observerCallback(direction), lines 240-254: the observed element intersects.
Intersect(observer, direction) ==
  /\ phase = "mounted"
  /\ ~pending.set
  /\ refs[observer].observing # NoKey
  /\ getBlockByKey(dom, refs[observer].observing)
  /\ refs' = [refs EXCEPT ![observer].observing = NoKey]
  /\ pending' = SetState([state EXCEPT !.currentLazyLoad =
                                         [key |-> refs[observer].observing,
                                          direction |-> direction]],
                         TRUE, FALSE)
  /\ UNCHANGED <<constants, editorState, phase, state, dom>>
  /\ UNCHANGED selectVars
  /\ UNCHANGED helperVars

\* observerCallback, lines 241-253, for an entry with isIntersecting = false (the
\* report an observer makes when it starts observing an element out of view, or when
\* the element leaves the view): the body of the if is skipped.
NotIntersecting(observer) ==
  /\ phase = "mounted"
  /\ ~pending.set
  /\ refs[observer].observing # NoKey
  /\ UNCHANGED vars

IntersectTop == Intersect("observerLazyTop", "TOP")

IntersectBottom == Intersect("observerLazyBottom", "BOTTOM")

NotIntersectingTop == NotIntersecting("observerLazyTop")

NotIntersectingBottom == NotIntersecting("observerLazyBottom")

NextComp ==
  \/ Mount
  \/ Flush
  \/ ToggleSection
  \/ SplitLastBlock
  \/ ChangeSelection
  \/ RequestScrollTo
  \/ IntersectTop
  \/ IntersectBottom
  \/ NotIntersectingTop
  \/ NotIntersectingBottom

SpecComp == InitComp /\ [][NextComp]_vars

-----------------------------------------------------------------------------
(* Vocabulary of the properties of DraftEditorContents *)

\* The window is committed and no state update is queued.
Settled == phase = "mounted" /\ ~pending.set

Window == state.outputBlockIndexes

\* The original indexes of the filtered sequence, in order.
FilteredIndexes(doc) ==
  LET filtered == FilterSections(doc).blocks
  IN  [k \in 1..Len(filtered) |-> filtered[k].originalIndex]

-----------------------------------------------------------------------------
(* Properties of DraftEditorContents *)

(* C9: while currentLazyLoad has no key, the committed window is the first   *)
(* MAX_BLOCKS_TO_DISPLAY entries of the filtered sequence, in original       *)
(* order; no block inside a collapsed section is part of it.                 *)
C9_NoFocusWindowIsFiltered ==
  (Settled /\ state.currentLazyLoad.key = NoKey)
    => /\ Window = SliceFromZero(FilteredIndexes(editorState.blocks), MAX_BLOCKS_TO_DISPLAY)
       /\ \A i \in Range(Window) : ~InsideCollapsed(editorState.blocks, i)

(* C10: every committed window after mount contains index 0 and the last     *)
(* index of the document; every index when the document is no longer than    *)
(* the maximum window size.                                                  *)
C10_FirstAndLastAlwaysResident ==
  Settled
    => IF DocLength <= MAX_LAZY_LOAD_BLOCKS
       THEN Range(Window) = 0..(DocLength - 1)
       ELSE {0, DocLength - 1} \subseteq Range(Window)

\* The elements an edge's observers report on: the one of the observer in the ref
\* cell, and those of replaced observers of that edge.
ObservedOn(observer, direction) ==
  (IF refs[observer].observing # NoKey THEN {refs[observer].observing} ELSE {})
    \cup {w.observing : w \in {x \in refs.replaced : x.direction = direction}}

(* C18: at every moment each edge (top, bottom) has at most one observed    *)
(* element, and it is the element recorded in observedElmTop /              *)
(* observedElmBottom: an observer that is replaced has been made to         *)
(* unobserve its element before, so no replaced observer still reports.     *)
C18_OneObservedElementPerEdge ==
  /\ refs.replaced = {}
  /\ ObservedOn("observerLazyTop", "TOP") \subseteq {refs.observedElmTop}
  /\ ObservedOn("observerLazyBottom", "BOTTOM") \subseteq {refs.observedElmBottom}

\* The observers were attached again after an intersection moved the window: both
\* observe, each the recorded element, and the top one an element other than at mount.
C18_Witness ==
  /\ Settled
  /\ state.currentLazyLoad.direction = "BOTTOM"
  /\ refs.observerLazyTop.observing # NoKey /\ refs.observerLazyBottom.observing # NoKey
  /\ refs.observerLazyTop.observing = refs.observedElmTop
  /\ refs.observerLazyBottom.observing = refs.observedElmBottom
  /\ 0 \notin Range(SubSeq(Window, 2, Len(Window)))
  /\ Window[2] > 1

Edges == {<<"observerLazyTop", "TOP">>, <<"observerLazyBottom", "BOTTOM">>}

\* A step of the mounted component in which an update is queued although the props
\* stay what they were: an observer's callback called setState.
CallbackQueuedUpdate ==
  phase = "mounted" /\ ~pending.set /\ pending'.set /\ editorState' = editorState

(* C19: when an observer reports an intersecting entry, that observer is    *)
(* disconnected and the queued state has currentLazyLoad = {key: the block  *)
(* key of the observed element, direction: the observer's edge}, all else   *)
(* as it was; a report that is not intersecting changes nothing, so an      *)
(* update is queued by a callback in no other way and an observer stops     *)
(* observing outside an update only by reporting an intersection.           *)
C19_IntersectionReport ==
  [][/\ CallbackQueuedUpdate
        => \E edge \in Edges :
             /\ refs[edge[1]].observing # NoKey
             /\ refs' = [refs EXCEPT ![edge[1]].observing = NoKey]
             /\ pending'.next = [state EXCEPT !.currentLazyLoad =
                                   [key |-> refs[edge[1]].observing, direction |-> edge[2]]]
             /\ state' = state /\ dom' = dom
     /\ (phase = "mounted" /\ ~pending.set /\ ~pending'.set /\ editorState' = editorState)
        => UNCHANGED <<refs, state, dom>>]_vars

\* The top observer has reported: it observes nothing, the bottom one still does, and
\* the queued state names the element the top observer observed.
C19_Witness ==
  /\ phase = "mounted" /\ pending.set
  /\ pending.next.currentLazyLoad = [key |-> refs.observedElmTop, direction |-> "TOP"]
  /\ pending.next.currentLazyLoad # state.currentLazyLoad
  /\ pending.next.outputBlockIndexes = state.outputBlockIndexes
  /\ refs.observerLazyTop.observing = NoKey
  /\ refs.observerLazyBottom.observing # NoKey

\* A step in which the host's scroll-to-block key changes.
ScrollKeyChanges == editorState'.blockKeyToScrollTo # editorState.blockKeyToScrollTo

NoEdgeObserved ==
  refs.observerLazyTop.observing = NoKey /\ refs.observerLazyBottom.observing = NoKey

-----------------------------------------------------------------------------
(* React processes a queued state update without waiting for anything: the  *)
(* flush of a pending update is weakly fair.  While an update is pending no *)
(* external event is taken, so the flushes that follow a request run with   *)
(* no further external event.                                               *)
InitCompLive ==
  /\ InitComp
  /\ editorState.blocks \in {DocOfKinds(<<"P", "C", "P", "P", "O", "P", "P", "P">>),
                             DocOfKinds(<<"P", "P">>)}
  /\ editorState.selection.startKey = NoKey

\* Flush is enabled: an update is queued on the mounted component.
FlushDue == phase = "mounted" /\ pending.set

\* Weak fairness of Flush, with ENABLED <<Flush>>_vars written as the guard of Flush.
FlushFairness == []<>(~FlushDue) \/ []<><<Flush>>_vars

SpecCompLive == InitCompLive /\ [][NextComp]_vars /\ FlushFairness

\* The keys of the blocks the documents of the component have.
ComponentKeys == UNION {KeysOf(doc) : doc \in ComponentDocs}

\* The block of key blockKey is an entry of the filtered sequence of the document.
InFilteredSequence(blockKey) ==
  \E k \in 1..Len(editorState.blocks) :
    /\ editorState.blocks[k].key = blockKey
    /\ k - 1 \in Range(FilteredIndexes(editorState.blocks))

\* A focus request for blockKey is being processed: the FOCUS state is queued or
\* committed and the focus key is not reset yet.
FocusRequested(blockKey) ==
  /\ phase = "mounted" /\ pending.set
  /\ blockKey # NoKey
  /\ pending.next.currentLazyLoad = [key |-> blockKey, direction |-> "FOCUS"]
  /\ pending.next.currentFocusBlockKey = blockKey \/ state.currentFocusBlockKey = blockKey
  /\ InFilteredSequence(blockKey)

\* The request for blockKey is served: the block is rendered, observation has
\* resumed, both edges have an observer that observes a rendered element, and the
\* focus key is reset.
FocusServed(blockKey) ==
  /\ Settled
  /\ getBlockByKey(dom, blockKey)
  /\ refs.canObserve
  /\ refs.observerLazyTop.created /\ refs.observerLazyBottom.created
  /\ refs.observerLazyTop.observing # NoKey /\ getBlockByKey(dom, refs.observerLazyTop.observing)
  /\ refs.observerLazyBottom.observing # NoKey /\ getBlockByKey(dom, refs.observerLazyBottom.observing)
  /\ state.currentFocusBlockKey = NoKey

(* C21: after a focus request for a key K of the filtered sequence, with no *)
(* further external event, the component eventually settles, and the state  *)
(* in which it settles has K rendered, canObserve = true, both edge         *)
(* observers created again and currentFocusBlockKey reset to null.          *)
C21_FocusRequestServed ==
  /\ (\E blockKey \in ComponentKeys : FocusRequested(blockKey)) ~> Settled
  /\ [][\A blockKey \in ComponentKeys :
          (FocusRequested(blockKey) /\ ~pending'.set) => FocusServed(blockKey)']_vars

\* A request for a block that was outside the window is served: the window was
\* moved to the block.
C21_Witness ==
  /\ FocusServed(editorState.blockKeyToScrollTo)
  /\ state.currentLazyLoad = [key |-> editorState.blockKeyToScrollTo, direction |-> "FOCUS"]
  /\ InFilteredSequence(editorState.blockKeyToScrollTo)
  /\ Window # FirstBlocksIndexes(editorState.blocks)
  /\ ~refs.isTopOfPage

-----------------------------------------------------------------------------
\* A step in which an observer starts to observe an element: the element is one of
\* dom', the tree rendered from the committed state.outputBlockIndexes'.
ObserverAttached ==
  \E edge \in Edges :
    /\ refs'[edge[1]].observing # NoKey
    /\ refs'[edge[1]] # refs[edge[1]]

\* A newer index set is computed and queued, not rendered yet.
NewerIndexesPending ==
  pending.set /\ pending.next.outputBlockIndexes # state.outputBlockIndexes

(* C23: an observer is attached only to an edge element of a DOM that was   *)
(* rendered from the latest computed index set: no step attaches an         *)
(* observer and leaves a newer index set queued for the next commit.        *)
C23_AttachOnlyOnLatestWindow ==
  [][ObserverAttached => ~NewerIndexesPending']_vars

-----------------------------------------------------------------------------
(* The helpers called on their own: the sibling navigator of blockMethods,  *)
(* handleCreateObservers, handleUpdateScrollPosition, handleEditorScroll    *)
(* and shouldComponentUpdate take any DOM, any layout and any pair of       *)
(* editor states, also those the component does not produce itself.        *)

\* Children of a container drawn for the navigator: at most MaxNodes nodes.
MaxNodes == 3

\* The largest count drawn for the navigator on those trees.
MaxCount == 3

\* A node is a block's DIV, or a list wrapper with this many LI children; a wrapper
\* without children is what a list is while its items are not inserted yet.
NodeShapes == {<<"DIV", 1>>, <<"OL", 2>>, <<"UL", 2>>, <<"OL", 0>>}

\* The tree of these shapes; block keys are given in document order, so the block of
\* key k is the k-th block of the flattened tree.
TreeOfShapes(shapes) ==
  LET before[n \in 0..Len(shapes)] == IF n = 0 THEN 0 ELSE before[n - 1] + shapes[n][2]
  IN  [n \in 1..Len(shapes) |->
         [tag |-> shapes[n][1],
          keys |-> [j \in 1..shapes[n][2] |-> before[n - 1] + j]]]

NavigatorTrees ==
  {TreeOfShapes(shapes) : shapes \in UNION {[1..n -> NodeShapes] : n \in 0..MaxNodes}}

\* A flat sequence of 10 nodes.
ScenarioTree == TreeOfShapes([n \in 1..10 |-> <<"DIV", 1>>])

\* Every element of the tree: the children of the container and the LIs.
ElementsOf(tree) ==
  {el \in [node : 1..Len(tree), item : 0..2] :
     \/ el.item = 0
     \/ tree[el.node].tag \in {"OL", "UL"} /\ el.item <= Len(tree[el.node].keys)}

NavigatorCall(fn, element, count, callback) ==
  [fn |-> fn, element |-> element, count |-> count, callback |-> callback]

InitNavigator ==
  /\ \/ /\ dom \in NavigatorTrees
        /\ \E fn \in {"getNextSibling", "getPreviousSibling"},
              element \in ElementsOf(dom) \cup {Null},
              count \in 0..MaxCount,
              callback \in {"first", "last", "none"} :
             helper = NavigatorCall(fn, element, count, callback)
     \/ /\ dom \in NavigatorTrees
        /\ \E element \in ElementsOf(dom) \cup {Null}, callback \in {"first", "last"} :
             helper = NavigatorCall("getFirstDraftBlock", element, 0, callback)
     \/ /\ dom = ScenarioTree
        /\ \E fn \in {"getNextSibling", "getPreviousSibling"}, count \in {4, 5} :
             helper = NavigatorCall(fn, [node |-> 6, item |-> 0], count,
                                    IF fn = "getNextSibling" THEN "first" ELSE "last")
  /\ pc = "navigator"
  /\ ret = NotCalled
  /\ constants = KindsConstants
  /\ editorState = EditorState(<<>>, NoKey, NoKey, NoKey)
  /\ initialBlockKey = NoKey
  /\ retBefore = NotCalled
  /\ phase = "unused"
  /\ state = InitialState
  /\ pending = NoPending
  /\ refs = InitialRefs
  /\ scroll = NoScroll

\* The helper is called with the drawn arguments and returns.
CallNavigator ==
  /\ pc = "navigator"
  /\ pc' = "navigated"
  /\ ret' = [called |-> TRUE,
             value |-> CASE helper.fn = "getNextSibling" ->
                              getNextSibling(dom, helper.element, helper.count, helper.callback)
                         [] helper.fn = "getPreviousSibling" ->
                              getPreviousSibling(dom, helper.element, helper.count, helper.callback)
                         [] helper.fn = "getFirstDraftBlock" ->
                              getFirstDraftBlock(dom, helper.element, helper.callback = "first")]
  /\ UNCHANGED <<constants, editorState, initialBlockKey, retBefore, scroll, helper>>
  /\ UNCHANGED componentVars

\* The editor state the component was rendered with last.
PrevEditorStates ==
  {EditorStateProps(1, 1, hasFocus, inCompositionMode, 1, 1, 1, FALSE, NoContent, NoKey) :
     hasFocus \in BOOLEAN, inCompositionMode \in BOOLEAN}

\* The editor states that can follow prev: prev itself, or a new object in which any
\* reference is the one of prev (1) or a new one (2); the has-focus flag is a field of
\* the selection, so a changed flag comes with a new selection.
NextEditorStates(prev) ==
  {prev} \cup
  {next \in {EditorStateProps(2, directionMap, hasFocus, inCompositionMode, currentContent,
                              decorator, selection, forceSelection, nativelyRenderedContent,
                              blockKeyToScrollTo) :
               directionMap \in {1, 2}, hasFocus \in BOOLEAN, inCompositionMode \in BOOLEAN,
               currentContent \in {1, 2}, decorator \in {1, 2}, selection \in {1, 2},
               forceSelection \in BOOLEAN, nativelyRenderedContent \in {NoContent, 1, 2},
               blockKeyToScrollTo \in {NoKey, 1}} :
     next.hasFocus # prev.hasFocus => next.selection # prev.selection}

InitShouldUpdate ==
  /\ \E prev \in PrevEditorStates :
       \E next \in NextEditorStates(prev), stateChanged \in BOOLEAN :
         helper = [fn |-> "shouldComponentUpdate", prevEditorState |-> prev,
                   nextEditorState |-> next, stateChanged |-> stateChanged]
  /\ pc = "shouldUpdate"
  /\ ret = NotCalled
  /\ constants = KindsConstants
  /\ editorState = EditorState(<<>>, NoKey, NoKey, NoKey)
  /\ initialBlockKey = NoKey
  /\ retBefore = NotCalled
  /\ phase = "unused"
  /\ state = InitialState
  /\ pending = NoPending
  /\ dom = <<>>
  /\ refs = InitialRefs
  /\ scroll = NoScroll

\* React asks the component whether to update for the next props and state.
CallShouldComponentUpdate ==
  /\ pc = "shouldUpdate"
  /\ pc' = "answered"
  /\ ret' = [called |-> TRUE,
             value |-> shouldComponentUpdateProps(helper.prevEditorState, helper.nextEditorState,
                                                  helper.stateChanged)]
  /\ UNCHANGED <<constants, editorState, initialBlockKey, retBefore, scroll, helper>>
  /\ UNCHANGED componentVars

\* The largest offset of the scroll container and the largest block height drawn.
MaxScroll == 2

\* The tops of the rectangles drawn: -MaxTop..MaxTop, relative to the viewport.
MaxTop == 1

Tops == (-MaxTop)..MaxTop

Rects == {Rect(top) : top \in Tops} \cup {NoRect}

\* What the DOM can give for an observed element: its rectangle, or no client
\* rectangle and then whatever querySelector finds.
Layouts ==
  {Layout(top, TRUE, NoRect) : top \in Tops} \cup {Layout(0, FALSE, rect) : rect \in Rects}

\* The variables that no scroll helper reads.
NoComponent ==
  /\ constants = KindsConstants
  /\ editorState = EditorState(<<>>, NoKey, NoKey, NoKey)
  /\ initialBlockKey = NoKey
  /\ retBefore = NotCalled
  /\ phase = "unused"
  /\ pending = NoPending

InitScrollPosition ==
  /\ \E direction \in {"TOP", "BOTTOM", "FOCUS"}, before \in Rects, layout \in Layouts :
       \/ /\ state = [InitialState EXCEPT !.currentLazyLoad = [key |-> 1, direction |-> direction]]
          /\ \E observedElmTop \in {NoKey, 1}, observedElmBottom \in {NoKey, 2} :
               refs = [InitialRefs EXCEPT !.observedElmTop = observedElmTop,
                                          !.observedElmBottom = observedElmBottom]
          /\ helper = [fn |-> "handleUpdateScrollPosition", before |-> before, layout |-> layout]
       \/ /\ state = [InitialState EXCEPT !.currentLazyLoad = [key |-> 1, direction |-> direction]]
          /\ refs = [InitialRefs EXCEPT !.observedElmTop = 1, !.observedElmBottom = 2]
          /\ before.exists /\ layout.clientRects
          /\ helper = [fn |-> "handleUpdateScrollPositionDeferred", before |-> before,
                       layout |-> layout]
  /\ scroll \in {[NoScroll EXCEPT !.scrollTop = offset] : offset \in 0..MaxScroll}
  /\ pc = "scrollPosition"
  /\ ret = NotCalled
  /\ dom = <<>>
  /\ NoComponent

\* handleUpdateScrollPosition is called after a commit; ret keeps the offset the
\* container had.
CallUpdateScrollPosition ==
  /\ pc = "scrollPosition"
  /\ pc' = "corrected"
  /\ ret' = [called |-> TRUE, value |-> scroll.scrollTop]
  /\ scroll' =
       IF helper.fn = "handleUpdateScrollPosition"
       THEN [scroll EXCEPT !.scrollTop =
               handleUpdateScrollPosition(state.currentLazyLoad, refs.observedElmTop,
                                          refs.observedElmBottom, helper.before, helper.before,
                                          helper.layout, scroll.scrollTop)]
       ELSE LET after == handleUpdateScrollPositionDeferred(state.currentLazyLoad, helper.before,
                                                            helper.layout, scroll.scrollTop)
            IN  [scroll EXCEPT !.scrollTop = after.scrollTop, !.timer = after.timer]
  /\ UNCHANGED <<constants, editorState, initialBlockKey, retBefore, helper>>
  /\ UNCHANGED componentVars

\* The timer fires: the callback reads the rectangle as the layout has it by then;
\* helper keeps the top it read.
TimerTick ==
  /\ pc = "corrected"
  /\ scroll.timer.set
  /\ pc' = "retried"
  /\ \E top \in Tops :
       /\ scroll' = [scroll EXCEPT !.scrollTop = TimerCallback(scroll.timer, top, scroll.scrollTop),
                                   !.timer = NoTimer]
       /\ helper' = [helper EXCEPT !.layout = Layout(top, TRUE, NoRect)]
  /\ UNCHANGED <<constants, editorState, initialBlockKey, ret, retBefore>>
  /\ UNCHANGED componentVars

\* The threshold is what lines 474-486 left: nothing yet, or a block height.
InitEditorScroll ==
  /\ \E isTopOfPage \in BOOLEAN : refs = [InitialRefs EXCEPT !.isTopOfPage = isTopOfPage]
  /\ \E topBlocksOffsetHeight \in {Unset} \cup 0..MaxScroll :
       scroll = [NoScroll EXCEPT !.topBlocksOffsetHeight = topBlocksOffsetHeight]
  /\ helper = NoCall
  /\ pc = "editorScroll"
  /\ ret = NotCalled
  /\ state = InitialState
  /\ dom = <<>>
  /\ NoComponent

\* The user scrolls the container to an offset, the scroll event is handled; helper
\* keeps the offset the event came with.
EditorScroll ==
  /\ pc \in {"editorScroll", "scrolled"}
  /\ pc' = "scrolled"
  /\ \E currentScroll \in 0..MaxScroll :
       /\ helper' = [fn |-> "handleEditorScroll", currentScroll |-> currentScroll]
       /\ scroll' = [scroll EXCEPT !.scrollTop =
                       handleEditorScroll(refs.isTopOfPage, scroll.topBlocksOffsetHeight,
                                          currentScroll)]
  /\ UNCHANGED <<constants, editorState, initialBlockKey, ret, retBefore>>
  /\ UNCHANGED componentVars

\* The containers handleCreateObservers is called on: at most two nodes.
AttachTrees == {tree \in NavigatorTrees : Len(tree) <= 2}

\* The refs before the call: nothing observed yet, or both edges observed.
AttachRefs ==
  {[InitialRefs EXCEPT !.canObserve = TRUE],
   [InitialRefs EXCEPT !.canObserve = TRUE,
                       !.observerLazyTop = [created |-> TRUE, observing |-> 1],
                       !.observerLazyBottom = [created |-> TRUE, observing |-> 2],
                       !.observedElmTop = 1, !.observedElmBottom = 2]}

InitAttach ==
  /\ constants \in {[MAX_LAZY_LOAD_BLOCKS |-> 1, LAZY_LOAD_BLOCK_OFFSET |-> offset,
                     MAX_BLOCKS_TO_DISPLAY |-> 1] : offset \in {0, 1}}
  /\ dom \in AttachTrees
  /\ refs \in AttachRefs
  /\ \E direction \in {"TOP", "BOTTOM"} :
       state = [InitialState EXCEPT !.currentLazyLoad = [key |-> 1, direction |-> direction],
                                    !.outputBlockIndexes = <<0, 1>>]
  /\ \E before \in {NoRect, Rect(1)}, top \in {0, MaxTop} :
       helper = [fn |-> "handleCreateObservers", params |-> [top |-> before, bottom |-> before],
                 layout |-> Layout(top, TRUE, NoRect)]
  /\ scroll = [NoScroll EXCEPT !.scrollTop = MaxScroll]
  /\ pc = "attach"
  /\ ret = NotCalled
  /\ editorState = EditorState(<<>>, NoKey, NoKey, NoKey)
  /\ initialBlockKey = NoKey
  /\ retBefore = NotCalled
  /\ phase = "unused"
  /\ pending = NoPending

\* handleCreateObservers is called; ret keeps the refs, the offset and the container
\* it was called with.
CallCreateObservers ==
  /\ pc = "attach"
  /\ pc' = "attached"
  /\ ret' = [called |-> TRUE, refs |-> refs, scrollTop |-> scroll.scrollTop, dom |-> dom]
  /\ refs' = handleCreateObservers(dom, refs)
  /\ scroll' = [scroll EXCEPT !.scrollTop =
                  handleCreateObserversScrollTop(dom, refs, state, helper.params, helper.layout,
                                                 scroll.scrollTop)]
  /\ UNCHANGED <<constants, editorState, initialBlockKey, retBefore, helper>>
  /\ UNCHANGED <<phase, state, pending, dom>>

\* The next change of the index set, with currentLazyLoad left as it was (the
\* recompute follows a new editor state, not a report): getSnapshotBeforeUpdate
\* (lines 376-393) stores the rectangles of the observed elements, the container is
\* rendered again and componentDidUpdate runs "Events on indexes change" with a new
\* index array; when that calls handleCreateObservers, line 223 corrects the offset
\* with the stored direction.  helper keeps the snapshot and the layout read.
IndexesChange ==
  /\ pc = "attached"
  /\ pc' = "changed"
  /\ \E tree \in AttachTrees, outputBlockIndexes \in {<<0>>, <<0, 1, 2>>},
        before \in {0, MaxTop}, top \in {0, MaxTop} :
       \E params \in {[top |-> IF refs.observedElmTop # NoKey THEN Rect(before) ELSE NoRect,
                        bottom |-> IF refs.observedElmBottom # NoKey THEN Rect(before)
                                   ELSE NoRect]},
          after \in {EventsOnIndexesChange([outputBlockIndexes |-> outputBlockIndexes,
                                            blocks |-> <<>>, pending |-> NoPending,
                                            refs |-> refs],
                                           TRUE, tree).refs} :
         /\ dom' = tree
         /\ state' = [state EXCEPT !.outputBlockIndexes = outputBlockIndexes]
         /\ refs' = after
         /\ helper' = [helper EXCEPT !.params = params, !.layout = Layout(top, TRUE, NoRect)]
         /\ scroll' = IF after = refs THEN scroll
                      ELSE [scroll EXCEPT !.scrollTop =
                              handleCreateObserversScrollTop(tree, refs, state', params,
                                                             helper'.layout, scroll.scrollTop)]
  /\ UNCHANGED <<constants, editorState, initialBlockKey, ret, retBefore>>
  /\ UNCHANGED <<phase, pending>>

\* The longest document render is called on by itself, and the longest index array.
MaxRenderLen == 3

MaxRenderIndexes == 4

\* Documents of paragraphs, ordered and unordered list items.
RenderDocs ==
  UNION { { DocOfKinds(kinds) : kinds \in [1..n -> {"P", "O", "L"}] } : n \in 1..MaxRenderLen }

\* Any index array, also one with an index twice, one out of order and one with the
\* index MaxRenderLen, which has no block.
RenderIndexes ==
  UNION { [1..n -> 0..MaxRenderLen] : n \in 0..MaxRenderIndexes }

InitRender ==
  /\ \E doc \in RenderDocs : editorState = EditorState(doc, NoKey, NoKey, NoKey)
  /\ \E outputBlockIndexes \in RenderIndexes :
       state = [InitialState EXCEPT !.outputBlockIndexes = outputBlockIndexes]
  /\ constants = KindsConstants
  /\ helper = [fn |-> "render"]
  /\ pc = "render"
  /\ ret = NotCalled
  /\ dom = <<>>
  /\ initialBlockKey = NoKey
  /\ retBefore = NotCalled
  /\ phase = "unused"
  /\ pending = NoPending
  /\ refs = InitialRefs
  /\ scroll = NoScroll

\* render is called: dom is the children of the container it returns.
CallRender ==
  /\ pc = "render"
  /\ pc' = "rendered"
  /\ dom' = Render(state.outputBlockIndexes, getBlocksAsArray(editorState))
  /\ UNCHANGED <<constants, editorState, initialBlockKey, ret, retBefore, helper, scroll>>
  /\ UNCHANGED <<phase, state, pending, refs>>

\* The length of the documents the index calculation is called on by itself.
MaxTopLen == 8

\* The constants of that call: the slice has 2 * (floor(4 / 2) + 1) + 1 = 7 entries
\* wherever the document has them, more than MAX_SLICE_TO_CHECK.
TopConstants ==
  [MAX_LAZY_LOAD_BLOCKS |-> 4, LAZY_LOAD_BLOCK_OFFSET |-> 1, MAX_BLOCKS_TO_DISPLAY |-> 4]

\* Documents of MaxTopLen blocks with at most two section headers.
TopDocs ==
  { DocOfKinds(kinds) : kinds \in { f \in [1..MaxTopLen -> {"P", "O", "C"}] : HeaderCount(f) <= 2 } }

\* this.state.currentLazyLoad.key is the key of a block, or of none (MaxTopLen + 1).
InitCalculate ==
  /\ constants = TopConstants
  /\ \E doc \in TopDocs : editorState = EditorState(doc, NoKey, NoKey, NoKey)
  /\ \E key \in 1..(MaxTopLen + 1), direction \in {"TOP", "FOCUS"} :
       state = [InitialState EXCEPT !.currentLazyLoad = [key |-> key, direction |-> direction]]
  /\ helper = [fn |-> "componentDidUpdate"]
  /\ pc = "calculate"
  /\ ret = NotCalled
  /\ dom = <<>>
  /\ initialBlockKey = NoKey
  /\ retBefore = NotCalled
  /\ phase = "unused"
  /\ pending = NoPending
  /\ refs = InitialRefs
  /\ scroll = NoScroll

\* "Calculate indexes to render" runs for a new currentLazyLoad and the update it
\* queues is committed; ret keeps what the selector computed on the way.
CallCalculate ==
  /\ pc = "calculate"
  /\ pc' = "calculated"
  /\ \E locals \in {LazyLoadLocals(editorState, getBlocksAsArray(editorState),
                                    state.currentLazyLoad.key)} :
       \E c \in {CalculateIndexesToRender(editorState, state, refs, locals)} :
         /\ ret' = locals
         /\ state' = c.pending.next
         /\ refs' = c.refs
         /\ editorState' = [editorState EXCEPT !.blocks = c.blocks]
  /\ UNCHANGED <<constants, initialBlockKey, retBefore, helper, scroll>>
  /\ UNCHANGED <<phase, pending, dom>>

InitHelpers ==
  \/ InitNavigator \/ InitShouldUpdate \/ InitScrollPosition \/ InitEditorScroll \/ InitAttach
  \/ InitRender \/ InitCalculate

NextHelpers ==
  \/ CallNavigator
  \/ CallShouldComponentUpdate
  \/ CallUpdateScrollPosition
  \/ TimerTick
  \/ EditorScroll
  \/ CallCreateObservers
  \/ IndexesChange
  \/ CallRender
  \/ CallCalculate

SpecHelpers == InitHelpers /\ [][NextHelpers]_vars

-----------------------------------------------------------------------------
(* Vocabulary of the properties of the sibling navigator *)

Navigated == pc = "navigated"

\* The tree is one render leaves: every wrapper has list items.
IsRendered(tree) == \A n \in 1..Len(tree) : Len(tree[n].keys) > 0

\* The number of blocks of the tree.
BlockCount(tree) ==
  LET total[n \in 0..Len(tree)] == IF n = 0 THEN 0 ELSE total[n - 1] + Len(tree[n].keys)
  IN  total[Len(tree)]

\* The element is a block (a DIV child of the container or an LI), not a wrapper.
IsBlockElement(tree, el) == el # Null /\ ~isElementList(tree, el)

\* The navigator was called on a block of a rendered tree with the projection of its
\* direction: getNextSibling with the first leaf, getPreviousSibling with the last.
WalkFromBlock ==
  /\ Navigated
  /\ IsRendered(dom)
  /\ IsBlockElement(dom, helper.element)
  /\ \/ helper.fn = "getNextSibling" /\ helper.callback = "first"
     \/ helper.fn = "getPreviousSibling" /\ helper.callback = "last"

\* The flattened position (from 1) the walk asks for.
TargetPosition ==
  IF helper.fn = "getNextSibling"
  THEN offsetKey(dom, helper.element) + helper.count
  ELSE offsetKey(dom, helper.element) - helper.count

TargetExists == TargetPosition >= 1 /\ TargetPosition <= BlockCount(dom)

(* C28: in a rendered tree of DIV blocks and OL/UL wrappers of list items,  *)
(* getNextSibling with the first-leaf projection (getPreviousSibling with   *)
(* the last-leaf projection) called with count on the block at flattened    *)
(* position i returns the block at position i + count (i - count) when that *)
(* position exists; in a flat sequence of 10 nodes, 4 forward from node[5]  *)
(* is node[9].                                                              *)
C28_WrappersAreTransparent ==
  /\ (WalkFromBlock /\ TargetExists)
       => /\ IsBlockElement(dom, ret.value)
          /\ offsetKey(dom, ret.value) = TargetPosition
  /\ (Navigated /\ dom = ScenarioTree /\ helper.fn = "getNextSibling" /\ helper.count = 4)
       => ret.value = [node |-> 10, item |-> 0]

\* A walk of three steps that left one wrapper and entered the next.
C28_Witness ==
  /\ WalkFromBlock /\ TargetExists
  /\ helper.count = 3
  /\ helper.element.item > 0
  /\ ret.value.item > 0
  /\ ret.value.node # helper.element.node
  /\ offsetKey(dom, ret.value) = TargetPosition

\* The walk runs off the end of the tree: fewer than count blocks remain in its
\* direction.
RunsOffTheEnd == WalkFromBlock /\ ~TargetExists

(* C29: when fewer than count blocks remain in the direction of the walk,   *)
(* the navigator returns null.                                              *)
C29_OffTheEndIsNull ==
  RunsOffTheEnd => ret.value = Null

\* The argument is null, or it is a list without children and the call has a
\* projection, which yields null for it.
NothingToProject ==
  \/ helper.element = Null
  \/ /\ helper.callback \in {"first", "last"}
     /\ isElementList(dom, helper.element)
     /\ dom[helper.element.node].keys = <<>>

(* C30: getNextSibling, getPreviousSibling and getFirstDraftBlock return    *)
(* null when they are called with a null node, with or without a projection *)
(* and for every count, and when the projection of the node yields null.    *)
C30_NullNodeGivesNull ==
  (Navigated /\ NothingToProject) => ret.value = Null

\* getNextSibling was called with a count on a list without children, next to a
\* block: the projection yielded null and so did the call.
C30_Witness ==
  /\ Navigated /\ NothingToProject
  /\ helper.fn = "getNextSibling"
  /\ helper.element # Null
  /\ helper.count > 0
  /\ nextSibling(dom, helper.element) # Null
  /\ ret.value = Null

-----------------------------------------------------------------------------
(* Properties of shouldComponentUpdate *)

Answered == pc = "answered"

DirectionOrFocusDiffers ==
  \/ helper.prevEditorState.directionMap # helper.nextEditorState.directionMap
  \/ helper.prevEditorState.hasFocus # helper.nextEditorState.hasFocus

\* One of the things a commit is compared on differs, or a selection is forced.
SomethingDiffers ==
  \/ DirectionOrFocusDiffers
  \/ helper.prevEditorState.inCompositionMode # helper.nextEditorState.inCompositionMode
  \/ helper.prevEditorState.currentContent # helper.nextEditorState.currentContent
  \/ helper.prevEditorState.decorator # helper.nextEditorState.decorator
  \/ helper.prevEditorState.selection # helper.nextEditorState.selection
  \/ helper.nextEditorState.forceSelection
  \/ helper.stateChanged

\* Both editor states are in composition mode, or the next content is the content
\* the browser rendered natively.
ComposingOrNative ==
  \/ helper.prevEditorState.inCompositionMode /\ helper.nextEditorState.inCompositionMode
  \/ /\ helper.nextEditorState.nativelyRenderedContent # NoContent
     /\ helper.nextEditorState.currentContent = helper.nextEditorState.nativelyRenderedContent

\* C27 as stated: true whenever anything differs, composition mode and natively
\* rendered content included.
C27_Original ==
  (Answered /\ SomethingDiffers) => ret.value = TRUE

(* C27: shouldComponentUpdate returns true when the direction map or the    *)
(* has-focus flag differ or the window state changed; otherwise it returns  *)
(* false when the editor state is the same object, when both states are in  *)
(* composition mode and when the next content is the natively rendered      *)
(* content, whatever else differs; otherwise it returns true exactly when   *)
(* the composition mode, the content, the decorator, the selection or the   *)
(* scroll-to key differ or a selection is forced.                           *)
C27_UpdateUnlessSkipped ==
  Answered =>
    ret.value =
      IF DirectionOrFocusDiffers \/ helper.stateChanged THEN TRUE
      ELSE IF helper.prevEditorState.id = helper.nextEditorState.id \/ ComposingOrNative
      THEN FALSE
      ELSE \/ SomethingDiffers
           \/ helper.prevEditorState.blockKeyToScrollTo # helper.nextEditorState.blockKeyToScrollTo

\* The content and the selection changed while both states are in composition mode:
\* the update is skipped.
C27_Witness ==
  /\ Answered
  /\ ret.value = FALSE
  /\ helper.prevEditorState.inCompositionMode /\ helper.nextEditorState.inCompositionMode
  /\ helper.prevEditorState.currentContent # helper.nextEditorState.currentContent
  /\ helper.prevEditorState.selection # helper.nextEditorState.selection
  /\ helper.nextEditorState.nativelyRenderedContent = NoContent

-----------------------------------------------------------------------------
(* Properties of handleCreateObservers called on any container *)

\* An observable block of the container is not resolved: it has no first or last
\* child, or a projection on the way yields null.
Unresolved(tree) ==
  \/ ElementRef(tree, getTopObservableBlock(tree)) = NoKey
  \/ ElementRef(tree, getBottomObservableBlock(tree)) = NoKey

\* Lines 456-493 let the index change reach handleCreateObservers: observation is on,
\* the index array is longer than MAX_LAZY_LOAD_BLOCKS, the container has a last
\* child and an edge element is not the one recorded.
AttachAttempted ==
  /\ ret.refs.canObserve
  /\ Len(state.outputBlockIndexes) > MAX_LAZY_LOAD_BLOCKS
  /\ dom # <<>>
  /\ \/ ret.refs.observedElmTop # ElementRef(dom, getTopObservableBlock(dom))
     \/ ret.refs.observedElmBottom # ElementRef(dom, getBottomObservableBlock(dom))

(* C22: when the top or the bottom observable block of the container is not *)
(* resolved (no first or last child, or the projection yields null),        *)
(* handleCreateObservers creates no observer, corrects no scroll offset and *)
(* leaves the observers and the observed-element records as they were; at   *)
(* the next change of the index set it is called again and attaches the     *)
(* observers to the blocks it resolves then.                                *)
C22_UnresolvedAttachIsSkipped ==
  /\ (pc = "attached" /\ Unresolved(ret.dom))
       => refs = ret.refs /\ scroll.scrollTop = ret.scrollTop
  /\ (pc = "changed" /\ Unresolved(ret.dom) /\ AttachAttempted)
       => IF Unresolved(dom) THEN refs = ret.refs
          ELSE /\ refs.observerLazyTop =
                    [created |-> TRUE, observing |-> ElementRef(dom, getTopObservableBlock(dom))]
               /\ refs.observerLazyBottom =
                    [created |-> TRUE, observing |-> ElementRef(dom, getBottomObservableBlock(dom))]
               /\ refs.observedElmTop = refs.observerLazyTop.observing
               /\ refs.observedElmBottom = refs.observerLazyBottom.observing

\* The container had children but the last one was a list without items: nothing was
\* attached, and the next index change attached both observers.
C22_Witness ==
  /\ pc = "changed"
  /\ Unresolved(ret.dom)
  /\ ret.dom # <<>>
  /\ ElementRef(ret.dom, getTopObservableBlock(ret.dom)) # NoKey
  /\ ~ret.refs.observerLazyTop.created
  /\ refs.observerLazyTop.observing # NoKey
  /\ refs.observerLazyBottom.observing # NoKey

-----------------------------------------------------------------------------
(* Properties of the scroll correction and of the scroll clamp *)

Corrected == pc = "corrected"

\* The rectangle handleUpdateScrollPosition compares with the snapshot.
NewRects ==
  IF state.currentLazyLoad.direction = "TOP" /\ ~helper.layout.clientRects
  THEN helper.layout.queryRect
  ELSE Rect(helper.layout.top)

\* The recompute had direction TOP (BOTTOM) and the observed element of that edge is
\* there, with its snapshot and its new rectangle.
BothRectsAvailable ==
  /\ \/ state.currentLazyLoad.direction = "TOP" /\ refs.observedElmTop # NoKey
     \/ state.currentLazyLoad.direction = "BOTTOM" /\ refs.observedElmBottom # NoKey
  /\ helper.before.exists
  /\ NewRects.exists

\* current offset + (newRect.top - oldRect.top)
CorrectedOffset == ret.value + (NewRects.top - helper.before.top)

(* C24: when the recompute had direction TOP (BOTTOM), the snapshot and the *)
(* new rectangle of the top (bottom) observed element are available, the    *)
(* new top is not 0 and differs from the old top, the offset of the scroll  *)
(* container after the correction is its offset before + (newRect.top -     *)
(* oldRect.top), for every value of that sum the container can take, 0      *)
(* included.                                                                *)
C24_CorrectionIsTheSum ==
  (/\ Corrected /\ helper.fn = "handleUpdateScrollPosition"
   /\ BothRectsAvailable
   /\ NewRects.top # 0 /\ NewRects.top # helper.before.top
   /\ CorrectedOffset >= 0)
    => scroll.scrollTop = CorrectedOffset

\* The rectangle read for the correction is degenerate: its top is 0.
DegenerateRead == BothRectsAvailable /\ NewRects.top = 0

(* C25: when the rectangle read for the scroll correction has top = 0, the  *)
(* correction is deferred by one tick and retried once; when the rectangle  *)
(* read at the retry has top = 0 too, no offset is written.                 *)
C25_DegenerateRetriedOnce ==
  /\ (Corrected /\ DegenerateRead) => scroll.timer.set
  /\ pc = "retried" => ~scroll.timer.set
  /\ (pc = "retried" /\ helper.layout.top = 0) => scroll.scrollTop = ret.value

Scrolled == pc = "scrolled"

\* topBlocksOffsetHeight.current as the comparison of line 282 reads it.
Threshold == IF scroll.topBlocksOffsetHeight = Unset THEN 0 ELSE scroll.topBlocksOffsetHeight

(* C26: while isTopOfPage is false, after every handled scroll event the    *)
(* offset of the scroll container is at least topBlocksOffsetHeight: an     *)
(* offset below it is reset to exactly that height, any other is kept;      *)
(* while isTopOfPage is true the handler leaves the offset as the event     *)
(* brought it.                                                              *)
C26_ScrollClamp ==
  Scrolled =>
    IF refs.isTopOfPage THEN scroll.scrollTop = helper.currentScroll
    ELSE /\ scroll.scrollTop >= Threshold
         /\ scroll.scrollTop = IF helper.currentScroll < Threshold THEN Threshold
                               ELSE helper.currentScroll

\* The user scrolled above the first block of the window: the offset was reset.
C26_Witness ==
  /\ Scrolled
  /\ ~refs.isTopOfPage
  /\ helper.currentScroll < Threshold
  /\ scroll.scrollTop = Threshold
  /\ scroll.scrollTop > helper.currentScroll

-----------------------------------------------------------------------------
(* Claims about render.                                                     *)

Rendered == pc = "rendered"

\* The keys of the blocks at the indexes of the window, in the order of the window;
\* an index that has no block gives nothing.
WindowKeys ==
  LET HasBlock(i) == i \in 0..(DocLength - 1)
      indexes == SelectSeq(state.outputBlockIndexes, HasBlock)
  IN  [k \in 1..Len(indexes) |-> At(editorState.blocks, indexes[k]).key]

\* The output nodes with every wrapper replaced by its children.
Flatten(tree) ==
  LET flat[n \in 0..Len(tree)] == IF n = 0 THEN <<>> ELSE flat[n - 1] \o tree[n].keys
  IN  flat[Len(tree)]

\* The wrapper template of the block of this key.
TemplateOfKey(key) ==
  LET i == CHOOSE k \in 1..DocLength : editorState.blocks[k].key = key
  IN  WrapperTemplate(editorState.blocks[i].type)

(* C31: flattening the output nodes of render gives the blocks at the       *)
(* window's indexes in order, nothing added and nothing lost; a block       *)
(* without wrapper template is a node of its own, a wrapper node holds      *)
(* blocks of its one template, and no two adjacent output nodes are         *)
(* wrappers of the same template, so every maximal run is one node.         *)
C31_RenderGroupsRuns ==
  Rendered
    => /\ Flatten(dom) = WindowKeys
       /\ \A n \in 1..Len(dom) :
            /\ Len(dom[n].keys) >= 1
            /\ dom[n].tag = "DIV" => Len(dom[n].keys) = 1
            /\ \A j \in 1..Len(dom[n].keys) :
                 TemplateOfKey(dom[n].keys[j]) = (IF dom[n].tag = "DIV" THEN "none" ELSE dom[n].tag)
       /\ \A n \in 1..(Len(dom) - 1) :
            dom[n].tag # "DIV" => dom[n + 1].tag # dom[n].tag

\* An ordered list run of two blocks next to an unordered list item and a paragraph:
\* three nodes for four window entries, the index without a block dropped.
C31_Witness ==
  /\ Rendered
  /\ Len(state.outputBlockIndexes) = 4
  /\ Len(WindowKeys) = 3
  /\ Len(dom) = 2
  /\ \E n \in 1..Len(dom) : dom[n].tag = "OL" /\ Len(dom[n].keys) = 2
  /\ \E n \in 1..Len(dom) : dom[n].tag = "UL"

-----------------------------------------------------------------------------
(* Claims about the index calculation of componentDidUpdate.                *)

Calculated == pc = "calculated"

\* The slice of the committed window begins at the first filtered block.
AnchoredAtFirstBlock ==
  /\ Calculated
  /\ Window = ret.lazyLoadBlockIndexes
  /\ ret.start = 0

(* C32: whenever the slice of the committed window begins at the first      *)
(* filtered block, isTopOfPage is true, also with a collapsed section among *)
(* the first six filtered entries.                                          *)
C32_AnchoredIsTopOfPage == AnchoredAtFirstBlock => refs.isTopOfPage

\* The same for documents without a block inside a collapsed section.
C32_OpenSectionsOnly ==
  (AnchoredAtFirstBlock /\ ~HasCollapsedMember(editorState.blocks)) => refs.isTopOfPage

-----------------------------------------------------------------------------
(* Claims about the order and the bounds of the selector's output.          *)

NonDecreasing(seq) == \A i \in 1..(Len(seq) - 1) : seq[i] <= seq[i + 1]

\* The selection start block does not come after the selection end block in the
\* document; an endpoint that is no block of the document comes after nothing.
SelectionInDocumentOrder ==
  SelStartIndex = -1 \/ SelEndIndex = -1 \/ SelStartIndex <= SelEndIndex

(* C33: when the selection start block does not come after the selection    *)
(* end block, the returned list is non-decreasing in original index: the    *)
(* first-block marker, the selection markers above, the slice in ascending  *)
(* order, the selection markers below, the last-block marker.               *)
C33_OutputNonDecreasing ==
  (Returned /\ SelectionInDocumentOrder)
    => /\ NonDecreasing(Output)
       /\ Output = ret.first \o ret.above \o ret.slice \o ret.below \o ret.last
       /\ StrictlyAscending(ret.slice)

\* Both selection endpoints are below the slice and the last-block marker follows.
C33_Witness ==
  /\ Returned
  /\ SelStartIndex # -1 /\ SelStartIndex < SelEndIndex
  /\ Len(ret.below) = 2
  /\ Len(ret.last) = 1
  /\ Len(ret.slice) >= 2

(* C34: for every non-empty document, every focus key, present or absent,   *)
(* and all constants maxWindowSize >= 0 and edgeOffset >= 0, the clamped    *)
(* slice bounds satisfy 0 <= start <= end <= last filtered position, so     *)
(* blocks[start], blocks[end] and every block of the slice are defined.     *)
C34_SliceBoundsInRange ==
  (Returned \/ ReturnedAgain)
    => /\ 0 <= ret.start
       /\ ret.start <= ret.end
       /\ ret.end <= LastFiltered
       /\ Len(ret.slice) = ret.end - ret.start + 1
       /\ ret.startIndexOriginal \in 0..(DocLength - 1)
       /\ ret.endIndexOriginal \in 0..(DocLength - 1)

\* The focus key is absent, the end moved by the start's clamp is beyond the last
\* filtered position, and the end clamp pulls the start below 0 before it is clamped.
C34_Witness ==
  /\ Returned
  /\ ~FocusFound
  /\ MAX_LAZY_LOAD_BLOCKS > 0
  /\ ret.rawEnd + Abs(ret.rawStart) > LastFiltered
  /\ LastFiltered - MAX_LAZY_LOAD_BLOCKS < 0
  /\ ret.start = 0 /\ ret.end = LastFiltered

-----------------------------------------------------------------------------
(* Claims about the component's update cycle.                               *)

\* What the selector returns for the current blocks, selection and focus key.
SelectedNow ==
  getLazyLoadedBlockIndexes(editorState, getBlocksAsArray(editorState), state.currentLazyLoad.key)

(* C35: whenever no state update is pending and a focus key is set, the     *)
(* committed outputBlockIndexes is what the selector returns for the        *)
(* current blocks, the current selection and currentLazyLoad.key: no later  *)
(* setState of the same update cycle discards the recomputed index set.     *)
C35_CommittedWindowIsSelected ==
  (Settled /\ state.currentLazyLoad.key # NoKey) => Window = SelectedNow

\* Processing the queued update would leave the component as it is, the same update
\* queued again: the update cycle would repeat for ever.
FlushRepeats ==
  /\ FlushDue
  /\ state = pending.next
  /\ LET tree == Render(pending.next.outputBlockIndexes, getBlocksAsArray(editorState))
         cdu == componentDidUpdate(editorState, editorState, FALSE, state, pending.next,
                                   pending.sameOut, pending.sameLL, tree, refs)
     IN  /\ dom = tree
         /\ cdu.pending = pending
         /\ cdu.refs = refs
         /\ cdu.blocks = editorState.blocks

(* C36: after an external event (a new editor state, an intersection        *)
(* report, a focus request), with no further external event, the component  *)
(* processes finitely many state updates and is quiescent again: the        *)
(* setState calls of componentDidUpdate do not re-trigger each other for    *)
(* ever.                                                                    *)
C36_UpdatesSettle ==
  /\ FlushDue ~> Settled
  /\ [](~FlushRepeats)

\* An intersection report was processed to the end: the window was recomputed for
\* the reported block and committed, and both observers were attached again.
C36_Witness ==
  /\ Settled
  /\ state.currentLazyLoad.direction \in {"TOP", "BOTTOM"}
  /\ Window = SelectedNow
  /\ Window # FirstBlocksIndexes(editorState.blocks)
  /\ refs.observerLazyTop.observing # NoKey
  /\ refs.observerLazyBottom.observing # NoKey

-----------------------------------------------------------------------------
(* Intersection reports that wait for delivery.  An IntersectionObserver    *)
(* notices an intersection and queues a task that calls its callback; the   *)
(* component may process an update between the two.  unobserve and          *)
(* disconnect leave an entry that is queued where it is.  helper holds the  *)
(* queued entry.                                                            *)

QueuedEntry(observer, direction) ==
  [fn |-> "observerCallback", observer |-> observer,
   key |-> refs[observer].observing, direction |-> direction]

\* The observer of the edge notices that its element intersects and queues the entry.
QueueReport(observer, direction) ==
  /\ phase = "mounted"
  /\ ~pending.set
  /\ helper = NoCall
  /\ refs[observer].observing # NoKey
  /\ getBlockByKey(dom, refs[observer].observing)
  /\ helper' = QueuedEntry(observer, direction)
  /\ UNCHANGED <<constants, editorState, phase, state, pending, dom, refs, scroll>>
  /\ UNCHANGED selectVars

QueueReportTop == QueueReport("observerLazyTop", "TOP")

QueueReportBottom == QueueReport("observerLazyBottom", "BOTTOM")

\* observerCallback(direction), lines 240-254, called with an entry that was queued
\* before the observer was made to unobserve its element: disconnect (line 243) finds
\* nothing observed, lines 245-251 queue the state with the reported key.  (The entry
\* of an observer that still observes is the case of Intersect.)
DeliverQueued ==
  /\ phase = "mounted"
  /\ ~pending.set
  /\ helper # NoCall
  /\ helper.fn = "observerCallback"
  /\ refs[helper.observer].observing = NoKey
  /\ pending' = SetState([state EXCEPT !.currentLazyLoad =
                                         [key |-> helper.key,
                                          direction |-> helper.direction]],
                         TRUE, FALSE)
  /\ helper' = NoCall
  /\ UNCHANGED <<constants, editorState, phase, state, dom, refs, scroll>>
  /\ UNCHANGED selectVars

NextCompQueued ==
  \/ NextComp
  \/ QueueReportTop
  \/ QueueReportBottom
  \/ DeliverQueued

SpecCompQueued == InitCompLive /\ [][NextCompQueued]_vars

\* The state the component has or is about to commit.
LatestState == IF pending.set THEN pending.next ELSE state

\* Observation is suspended: a focus request was taken and the requested block has
\* not been found in the output yet (canObserve.current is false between line 516 and
\* line 546).
ObservationSuspended == phase = "mounted" /\ ~refs.canObserve

(* C37: from a focus request until observation resumes no element is        *)
(* observed by either edge observer and currentLazyLoad keeps the direction *)
(* FOCUS and the requested key, also when an intersection report that was   *)
(* queued before the request is delivered after it.                         *)
C37_FocusHeldWhileSuspended ==
  ObservationSuspended =>
    /\ NoEdgeObserved
    /\ LatestState.currentLazyLoad.direction = "FOCUS"
    /\ LatestState.currentLazyLoad.key # NoKey

-----------------------------------------------------------------------------
(* C38: a re-attach of the observers that follows a later change of the     *)
(* document or the selection, with the stored direction still TOP or        *)
(* BOTTOM, leaves the offset of the scroll container as it was: the offset  *)
(* is corrected only for a recompute that a TOP or BOTTOM report triggered. *)
C38_LaterReattachKeepsOffset ==
  [][(pc = "attached" /\ pc' = "changed" /\ state'.currentLazyLoad = state.currentLazyLoad)
       => scroll'.scrollTop = scroll.scrollTop]_vars

-----------------------------------------------------------------------------
(* C39: whenever the committed window holds at most MAX_LAZY_LOAD_BLOCKS    *)
(* indexes and no update is queued, neither edge observer observes an       *)
(* element, also after a focus request is served.                           *)
C39_NoObserverForSmallWindow ==
  (Settled /\ Len(Window) <= MAX_LAZY_LOAD_BLOCKS) => NoEdgeObserved

====
